---- MODULE Spec2Model ----
(***************************************************************************)
(* The notification-driven audio registry of src/bin/events.rs: the        *)
(* device map with its default-device matrix, the channel of events, the   *)
(* notification adapters that push onto it, the reconciler loop of main    *)
(* that pops and applies them, and the focus correlation                    *)
(* (find_sessions_for_pid / pid_and_child_pids).                           *)
(*                                                                         *)
(* Platform calls are inputs: what an enumeration returns, which state a   *)
(* device reports, whether a call fails.  Every action that makes platform *)
(* calls takes a platform profile P, the record of the answers the         *)
(* platform may give; each specification below fixes a profile.            *)
(* UnregisterAudioSessionNotification (Drop for SessionInfo) is taken to   *)
(* succeed for a sink that was registered.                                 *)
(***************************************************************************)
EXTENDS Integers, Sequences, FiniteSets, TLC

\* Capacity of the channel in the model (mpsc::channel() is unbounded).
MaxQueue == 1

\* The same where the order of the events in the channel is examined.
MaxFifo == 3
\* Process ids are 1..MaxPid.
MaxPid == 3
\* The MIDI dispatcher is given at most MaxControls controls.
MaxControls == 2

DeviceIds == {"d1", "d2"}
SessionIds == {"s1", "s2"}
Pids == 1..MaxPid

\* Option<T>: None is the empty sequence, Some(x) the one-element sequence.
None == <<>>

Some(x) == <<x>>

\* HashMap helpers: a map is a function on its key set.
EmptyMap == [k \in {} |-> None]

MapInsert(m, k, v) == [x \in DOMAIN m \cup {k} |-> IF x = k THEN v ELSE m[x]]

MapRemove(m, k) == [x \in DOMAIN m \ {k} |-> m[x]]

-----------------------------------------------------------------------------
(* Enumerations and their conversions                                      *)

\* enum EDataFlow { Render = 0, Capture = 1, All }
EDataFlow == {"Render", "Capture", "All"}

\* enum ERole { Console = 0, Multimedia = 1, Communications = 2 }
ERole == {"Console", "Multimedia", "Communications"}

\* `flow as usize`
FlowIndex(flow) == CASE flow = "Render" -> 0 [] flow = "Capture" -> 1 [] flow = "All" -> 2

\* `role as usize`
RoleIndex(role) == CASE role = "Console" -> 0 [] role = "Multimedia" -> 1 [] role = "Communications" -> 2

\* The platform's EDataFlow values; "eOther" stands for any value outside the known set.
WindowsEDataFlow == {"eRender", "eCapture", "eAll", "eOther"}

\* A flow match whose last arm takes any other value for All.
FlowFromWindows_coerced(value) ==
    CASE value = "eRender" -> Some("Render")
      [] value = "eCapture" -> Some("Capture")
      [] OTHER -> Some("All")

\* The flow match of OnDefaultDeviceChanged: Some(flow), or None for the BAD_VALUE error.
FlowFromWindows(value) ==
    CASE value = "eRender" -> Some("Render")
      [] value = "eCapture" -> Some("Capture")
      [] value = "eAll" -> Some("All")
      [] OTHER -> None

WindowsERole == {"eConsole", "eMultimedia", "eCommunications", "eOther"}

\* The role match of OnDefaultDeviceChanged.
RoleFromWindows(value) ==
    CASE value = "eConsole" -> Some("Console")
      [] value = "eMultimedia" -> Some("Multimedia")
      [] value = "eCommunications" -> Some("Communications")
      [] OTHER -> None

\* enum SessionState
SessionState == {"Active", "Inactive", "Expired"}

AudioSessionState == {"AudioSessionStateActive", "AudioSessionStateInactive",
                      "AudioSessionStateExpired", "AudioSessionStateOther"}

\* impl TryFrom<AudioSessionState> for SessionState
SessionStateFromWindows(value) ==
    CASE value = "AudioSessionStateActive" -> Some("Active")
      [] value = "AudioSessionStateInactive" -> Some("Inactive")
      [] value = "AudioSessionStateExpired" -> Some("Expired")
      [] OTHER -> None

\* enum DisconnectReason
DisconnectReason == {"DeviceRemoval", "ServerShutdown", "FormatChanged", "SessionLogoff",
                     "SessionDisconnected", "ExclusiveModeOverride", "SessionExpired"}

AudioSessionDisconnectReason == {"DisconnectReasonDeviceRemoval", "DisconnectReasonServerShutdown",
                                 "DisconnectReasonFormatChanged", "DisconnectReasonSessionLogoff",
                                 "DisconnectReasonSessionDisconnected",
                                 "DisconnectReasonExclusiveModeOverride", "DisconnectReasonOther"}

\* impl TryFrom<AudioSessionDisconnectReason> for DisconnectReason
DisconnectReasonFromWindows(reason) ==
    CASE reason = "DisconnectReasonDeviceRemoval" -> Some("DeviceRemoval")
      [] reason = "DisconnectReasonServerShutdown" -> Some("ServerShutdown")
      [] reason = "DisconnectReasonFormatChanged" -> Some("FormatChanged")
      [] reason = "DisconnectReasonSessionLogoff" -> Some("SessionLogoff")
      [] reason = "DisconnectReasonSessionDisconnected" -> Some("SessionDisconnected")
      [] reason = "DisconnectReasonExclusiveModeOverride" -> Some("ExclusiveModeOverride")
      [] OTHER -> None

\* The platform's DEVICE_STATE values; "DEVICE_STATE_OTHER" is any value outside the four.
DEVICE_STATE == {"DEVICE_STATE_ACTIVE", "DEVICE_STATE_DISABLED", "DEVICE_STATE_NOTPRESENT",
                 "DEVICE_STATE_UNPLUGGED", "DEVICE_STATE_OTHER"}

\* enum DeviceState; Active carries the IAudioSessionManager2 handle.
DeviceState == {"Active", "Disabled", "NotPresent", "Unplugged"}

\* DeviceInfo::translate_state with device.Activate succeeding: Some(state), or None
\* for the BAD_VALUE error.
translate_state(new_state) ==
    CASE new_state = "DEVICE_STATE_ACTIVE" -> Some("Active")
      [] new_state = "DEVICE_STATE_DISABLED" -> Some("Disabled")
      [] new_state = "DEVICE_STATE_NOTPRESENT" -> Some("NotPresent")
      [] new_state = "DEVICE_STATE_UNPLUGGED" -> Some("Unplugged")
      [] OTHER -> None

-----------------------------------------------------------------------------
(* Events                                                                  *)

\* enum Event, flattened: every event is a record of the same shape; a field an
\* event does not carry holds "-" (0 for the number).
MkEvent(type, device_id, session_instance_id, kind, a, b, n) ==
    [type |-> type, device_id |-> device_id, session_instance_id |-> session_instance_id,
     kind |-> kind, a |-> a, b |-> b, n |-> n]

\* The value of `last` before any event was received.
NoEvent == MkEvent("None", "-", "-", "-", "-", "-", 0)

\* Event::Device(device_id, DeviceEvent::DefaultDeviceChanged(flow, role))
DefaultDeviceChanged(device_id, flow, role) ==
    MkEvent("Device", device_id, "-", "DefaultDeviceChanged", flow, role, 0)

\* Event::Device(device_id, DeviceEvent::DeviceAdded)
DeviceAdded(device_id) == MkEvent("Device", device_id, "-", "DeviceAdded", "-", "-", 0)

\* Event::Device(device_id, DeviceEvent::DeviceRemoved)
DeviceRemoved(device_id) == MkEvent("Device", device_id, "-", "DeviceRemoved", "-", "-", 0)

\* Event::Device(device_id, DeviceEvent::DeviceStateChanged(new_state))
DeviceStateChanged(device_id, new_state) ==
    MkEvent("Device", device_id, "-", "DeviceStateChanged", new_state, "-", 0)

\* Event::Device(device_id, DeviceEvent::SessionCreated(session_instance_id))
SessionCreated(device_id, session_instance_id) ==
    MkEvent("Device", device_id, session_instance_id, "SessionCreated", "-", "-", 0)

\* Event::Session(device_id, session_instance_id, session_event); a is the payload
\* (display name, session state, disconnect reason).
SessionEvent(device_id, session_instance_id, kind, a) ==
    MkEvent("Session", device_id, session_instance_id, kind, a, "-", 0)

\* Event::ActiveWindowChange(pid)
ActiveWindowChange(pid) == MkEvent("ActiveWindowChange", "-", "-", "-", "-", "-", pid)

-----------------------------------------------------------------------------
(* Sessions and devices                                                    *)

\* process.name() of the process with this pid.
ProcessName(pid) == "exe" \o ToString(pid)

\* A set_display_name that stores the reported name as it is.
set_display_name_as_reported(session_info, new_display_name, lookup) ==
    [session_info EXCEPT !.display_name = IF new_display_name # None THEN new_display_name ELSE lookup]

\* SessionInfo::set_display_name, its GetProcessId call succeeding; lookup is what
\* the fresh process-table lookup for the session's pid yields: None or Some(name).
set_display_name(session_info, new_display_name, lookup) ==
    LET normalized == IF new_display_name = Some("") THEN None ELSE new_display_name
    IN  [session_info EXCEPT !.display_name = IF normalized # None THEN normalized ELSE lookup]

\* SessionInfo::new with every platform call succeeding: answer is what the platform
\* reports for the session, [pid, display_name, lookup].
SessionInfoNew(instance_id, answer) ==
    set_display_name([instance_id |-> instance_id, pid |-> answer.pid, display_name |-> None],
                     Some(answer.display_name), answer.lookup)

\* An activation that returns Ok after the first session of the enumeration.
activate_unfinished(device_info, sessions) ==
    IF device_info.state # "Active" \/ sessions = EmptyMap
    THEN device_info
    ELSE LET first == CHOOSE s \in DOMAIN sessions : TRUE
         IN  [device_info EXCEPT !.session_map =
                MapInsert(@, first, SessionInfoNew(first, sessions[first]))]

\* An activation that rebuilds the map from the sessions it did not know yet.
activate_new_only(device_info, sessions) ==
    IF device_info.state # "Active"
    THEN device_info
    ELSE [device_info EXCEPT !.session_map =
            [s \in DOMAIN sessions \ DOMAIN @ |-> SessionInfoNew(s, sessions[s])]]

\* DeviceInfo::activate with every platform call succeeding: sessions maps each
\* enumerated session instance id to the platform's answer for it.
activate(device_info, sessions) ==
    IF device_info.state # "Active"
    THEN device_info
    ELSE [device_info EXCEPT !.session_map =
            [s \in DOMAIN @ \cup DOMAIN sessions |->
                IF s \in DOMAIN sessions THEN SessionInfoNew(s, sessions[s]) ELSE @[s]]]

\* DeviceInfo::set_state with every platform call succeeding and a known new_state.
set_state(device_info, new_state, sessions) ==
    activate([device_info EXCEPT !.state = translate_state(new_state)[1]], sessions)

\* DeviceInfo::new with every platform call succeeding; state is what GetState reports.
DeviceInfoNew(id, state, sessions) ==
    activate([id |-> id, state |-> translate_state(state)[1], session_map |-> EmptyMap], sessions)

\* What a call yields when it panics instead of returning an Option.
Panicked == <<"panic", "panic">>

\* A lookup that reads the Render column whatever the flow.
get_default_device_render_only(defaults_, devices, flow, role) ==
    IF flow = "All"
    THEN Panicked
    ELSE LET cell == defaults_[RoleIndex(role) + 1][1]
         IN  IF cell # None /\ cell[1] \in DOMAIN devices THEN Some(devices[cell[1]]) ELSE None

\* DeviceMap::get_default_device on the matrix defaults_ and the map devices; the
\* failed assert_ne!(flow, EDataFlow::All) panics.
get_default_device(defaults_, devices, flow, role) ==
    IF flow = "All"
    THEN Panicked
    ELSE LET cell == defaults_[RoleIndex(role) + 1][FlowIndex(flow) + 1]
         IN  IF cell # None /\ cell[1] \in DOMAIN devices THEN Some(devices[cell[1]]) ELSE None

\* print_devices, its loop over the defaults: the six get_default_device calls, by
\* role and flow.
print_devices(defaults_, devices) ==
    [role \in ERole, flow \in {"Render", "Capture"} |->
        get_default_device(defaults_, devices, flow, role)]

-----------------------------------------------------------------------------
(* Process snapshots                                                       *)

\* A snapshot (sysinfo System): the processes, each with proc.parent(), an Option<Pid>.
ParentLinks == {None} \cup {Some(q) : q \in Pids}

Systems == UNION {[procs -> ParentLinks] : procs \in SUBSET Pids}

\* One round of the loop of pid_and_child_pids: the pids whose parent is in the last set.
new_children(system_, parents) ==
    {pid \in DOMAIN system_ : system_[pid] # None /\ system_[pid][1] \in parents}

\* children.last().unwrap()
last_set(children_) == children_[Len(children_)]

\* A result made of the last set only.
Flatten_last_only(children_) == children_[Len(children_)]

\* children.into_iter().flatten().collect()
Flatten(children_) == UNION {children_[i] : i \in 1..Len(children_)}

\* A scan without the pid filter.
ScanSessions_unfiltered(devices, proc_and_children_) ==
    UNION {{<<devices[d].id, devices[d].session_map[s].instance_id>> :
                s \in DOMAIN devices[d].session_map} : d \in DOMAIN devices}

\* The scan of find_sessions_for_pid over the whole registry.
ScanSessions(devices, proc_and_children_) ==
    UNION {{<<devices[d].id, devices[d].session_map[s].instance_id>> :
                s \in {x \in DOMAIN devices[d].session_map :
                          devices[d].session_map[x].pid \in proc_and_children_}} :
           d \in DOMAIN devices}

-----------------------------------------------------------------------------
(* Registry operations                                                     *)

\* DeviceMap::new: the 3x2 matrix, rows by role, columns by flow, every cell None.
NoDefaults == <<<<None, None>>, <<None, None>>, <<None, None>>>>

\* device_map.defaults[role as usize][flow as usize] = Some(device_id)
set_default(defaults_, flow, role, device_id) ==
    [defaults_ EXCEPT ![RoleIndex(role) + 1][FlowIndex(flow) + 1] = Some(device_id)]

\* A fan-out that passes All on as it is.
default_flows_unexpanded(flow) == <<flow>>

\* The flows a DefaultDeviceChanged event writes: the fan-out of All.
default_flows(flow) == IF flow = "All" THEN <<"Render", "Capture">> ELSE <<flow>>

\* The loop over flows of the DefaultDeviceChanged arm.
set_defaults(defaults_, flow, role, device_id) ==
    LET flows == default_flows(flow)
        first == set_default(defaults_, flows[1], role, device_id)
    IN  IF Len(flows) = 2 THEN set_default(first, flows[2], role, device_id) ELSE first

\* device_map_guard.map.insert(device_info.id.clone(), device_info)
insert_device(devices, device_info) == MapInsert(devices, device_info.id, device_info)

\* A removal that empties the map.
remove_device_cleared(devices, device_id) == EmptyMap

\* A removal that leaves the entry in the map.
remove_device_kept(devices, device_id) == devices

\* device_map_guard.map.remove(device_id)
remove_device(devices, device_id) == MapRemove(devices, device_id)

\* device_info.session_map.insert(session_instance_id.clone(), session)
insert_session(device_info, session_instance_id, session) ==
    [device_info EXCEPT !.session_map = MapInsert(@, session_instance_id, session)]

\* A disconnect that leaves the session in the map.
remove_session_kept(device_info, session_instance_id) == device_info

\* device_info.session_map.remove(session_instance_id)
remove_session(device_info, session_instance_id) ==
    [device_info EXCEPT !.session_map = MapRemove(@, session_instance_id)]

\* The (device id, session instance id) pairs of the session entries of the registry.
SessionsOf(devices) ==
    {ds \in DeviceIds \X SessionIds :
        ds[1] \in DOMAIN devices /\ ds[2] \in DOMAIN devices[ds[1]].session_map}

\* The (device id, session instance id) pairs of these sessions of one device.
PairsOf(device_id, session_ids) == {<<device_id, s>> : s \in session_ids}

\* No session-level subscription is registered.
NoSubscriptions == [ds \in DeviceIds \X SessionIds |-> 0]

\* A SessionInfo::new that registers nothing.
RegisterAudioSessionNotification_skipped(subs, pairs) == subs

\* control.RegisterAudioSessionNotification(&session_events) of SessionInfo::new, for
\* each of these sessions.
RegisterAudioSessionNotification(subs, pairs) ==
    [ds \in DOMAIN subs |-> subs[ds] + IF ds \in pairs THEN 1 ELSE 0]

\* Drop for SessionInfo, for each of these entries: UnregisterAudioSessionNotification.
UnregisterAudioSessionNotification(subs, pairs) ==
    [ds \in DOMAIN subs |-> subs[ds] - IF ds \in pairs THEN 1 ELSE 0]

\* The subscription a failing SessionInfo::new leaves registered: none when the call
\* that fails comes before its RegisterAudioSessionNotification, its own when it comes
\* after (session_events is not unregistered then).  P.leaks says which may happen.
Leaks(P, device_id, session_ids) ==
    {{<<device_id, s>>} : s \in {x \in session_ids : TRUE \in P.leaks}}
        \cup {{} : x \in {y \in P.leaks : y = FALSE \/ session_ids = {}}}

\* One platform call as the handlers record it.
Call(name, ok, locked) == [call |-> name, ok |-> ok, locked |-> locked]

\* An activation that asks for the enumeration before it registers.
ActivationCalls_enumeration_first(locked) ==
    <<Call("Activate", TRUE, locked), Call("GetSessionEnumerator", TRUE, locked),
      Call("RegisterSessionNotification", TRUE, locked)>>

\* translate_state for DEVICE_STATE_ACTIVE followed by DeviceInfo::activate, every
\* call succeeding: device.Activate, RegisterSessionNotification, then the
\* enumeration (GetSessionEnumerator, GetCount, GetSession and SessionInfo::new for
\* each session).
ActivationCalls(locked) ==
    <<Call("Activate", TRUE, locked), Call("RegisterSessionNotification", TRUE, locked),
      Call("GetSessionEnumerator", TRUE, locked)>>

\* The calls made when the i-th one fails: `?` returns at once.
FailedAt(log, i) == [k \in 1..i |-> IF k = i THEN [log[k] EXCEPT !.ok = FALSE] ELSE log[k]]

\* What a failing activation may have called: a failure of Activate or of the
\* registration comes before any session is created; otherwise the enumeration failed.
FailedActivations(locked, some_created) ==
    {FailedAt(ActivationCalls(locked), i) : i \in IF some_created THEN {3} ELSE {2, 3}}

\* children.push(new_children).  A walk that ends holds at most MaxPid + 1 sets (they
\* are disjoint and not empty); a longer vector belongs to a walk that never ends,
\* and of it the most recent MaxPid + 2 sets are kept.
push(children_, new_set) ==
    IF Len(children_) < MaxPid + 2
    THEN Append(children_, new_set)
    ELSE Append(Tail(children_), new_set)

-----------------------------------------------------------------------------
(* Platform answers                                                        *)

\* What the platform may report for one session: its pid, its display name and what
\* the process-table lookup for that pid finds.
SessionAnswers(P) ==
    {[pid |-> p, display_name |-> n, lookup |-> IF f THEN Some(ProcessName(p)) ELSE None] :
        p \in P.pids, n \in P.names, f \in P.lookups}

\* What a session enumeration may return: a set of sessions, each with its answer.
Enumerations(P) == UNION {[e -> SessionAnswers(P)] : e \in P.enums}

\* The part of an enumeration handled before a call failed.
Restrict(sessions, part) == [s \in part |-> sessions[s]]

-----------------------------------------------------------------------------
(* State                                                                   *)

VARIABLES
    midi_pc,           \* main of the MIDI dispatcher: "off" (not this program), "start",
                       \* "listening" (at midi_input_rx.recv())
    controls,          \* its vector of controls
    exact_midi_events, \* its table from the exact key to the controls registered under it
    threshold_midi_events, \* the same for the threshold key
    midi_input,        \* its channel (midi_input_tx, midi_input_rx)
    bytes,             \* the message its loop received last
    invoked,           \* the controls whose handle_midi_event that iteration called, in
                       \* order, as indexes into `controls`
    pc,                \* main: "start", "running" (at the channel receive),
                       \* "expanding" (inside pid_and_child_pids), "dropping" (DeviceRemoved arm,
                       \* guard released), "stopped" (main returned or panicked)
    map,               \* DeviceMap.map: device id -> [id, state, session_map]
    defaults,          \* DeviceMap.defaults
    queue,             \* the channel (event_tx, event_rx)
    last,              \* the event the loop received last
    result,            \* how its handling ended: "Ok", "Err" (returned) or "Panic"
    system,            \* the process snapshot of the focus arm
    children,          \* the vector of pid_and_child_pids
    proc_and_children, \* what pid_and_child_pids returned: None until it has
    found,             \* what find_sessions_for_pid returned
    enumerated,        \* the session ids the enumeration of the last handler returned
    added,             \* ids with a DeviceAdded received and no DeviceRemoved since
    subscribed,        \* per (device, session): session-level subscriptions registered
                       \* and not unregistered
    released,          \* the entries whose subscription the last handler unregistered
    removed,           \* the local `removed` of the DeviceRemoved arm
    returned,          \* what the last notification callback returned: "Ok" or "BAD_VALUE"
    capacity,          \* how many events the producers may be ahead of the reconciler
                       \* (the channel itself is unbounded); fixed by the initial state
    calls,             \* the platform calls of the last handler that activate a device,
                       \* subscribe or enumerate, in order: [call, ok, locked], locked
                       \* saying whether the registry guard was held
    hook,              \* the focus tracker: where its thread is, the pid owning the
                       \* foreground window, and the foreground changes the platform
                       \* has recorded for the hook and not yet delivered
    inflight,          \* the OnStateChanged callbacks between their two sends: for
                       \* each, the StateChanged event it has still to send
    guards,            \* what the last step of main did with the registry lock, in
                       \* order: "lock" (device_map.lock()) and "drop" (the guard is
                       \* dropped or goes out of scope)
    audio              \* the platform's devices, in the specification that follows
                       \* them (FairStartup), and its sessions, as (device, session) pairs: those
                       \* that are live (what an enumeration of the device returns,
                       \* in the specifications that follow them), those whose
                       \* OnSessionCreated call is still to come, and those that ended

regVars == <<map, defaults>>

focusVars == <<system, children, proc_and_children, found>>

histVars == <<enumerated, added, calls>>

subVars == <<subscribed, released, removed>>

\* The state of the MIDI dispatcher (src/main.rs), a program of its own.
midiVars == <<midi_pc, controls, exact_midi_events, threshold_midi_events, midi_input,
              bytes, invoked>>

\* The state of the audio reconciler (src/bin/events.rs).
eventsVars == <<pc, map, defaults, queue, last, result, system, children,
                proc_and_children, found, enumerated, added, subscribed, released, removed,
                returned, capacity, calls, hook, inflight, audio, guards>>

vars == <<pc, map, defaults, queue, last, result, system, children, proc_and_children,
          found, enumerated, added, subscribed, released, removed, returned, capacity,
          calls, hook, inflight, audio, guards, midi_pc, controls, exact_midi_events,
          threshold_midi_events, midi_input, bytes, invoked>>

\* The MIDI dispatcher not started: the specifications of the reconciler leave it so.
MidiNotStarted ==
    /\ midi_pc = "off"
    /\ controls = <<>>
    /\ exact_midi_events = <<>>
    /\ threshold_midi_events = <<>>
    /\ midi_input = <<>>
    /\ bytes = <<>>
    /\ invoked = <<>>

\* No session followed on the platform, and no device: the endpoint notification
\* client is not registered yet (client), no device is plugged in (present) and none
\* was unplugged (gone).
NoSessions == [live |-> {}, announce |-> {}, ended |-> {},
               client |-> FALSE, present |-> {}, gone |-> {}]

\* A handler that locks the registry once and releases the guard before it returns
\* (by drop(device_map_guard), at the end of the arm, or unwinding), as every arm of
\* handle_device_event and handle_session_event does; print_devices does the same.
Guarded == <<"lock", "drop">>

\* find_sessions_for_pid locks and calls pid_and_child_pids holding the guard.
Scanning == <<"lock">>

\* A focus arm whose loop starts with the guard of find_sessions_for_pid still held.
ReportLocks_guard_kept(sessions) ==
    [i \in 1..(2 * Cardinality(sessions)) |-> IF i % 2 = 1 THEN "lock" ELSE "drop"]

\* find_sessions_for_pid returns, which releases its guard; the loop of the
\* ActiveWindowChange arm then locks once for each session found, the guard going
\* out of scope at the end of each iteration.
ReportLocks(sessions) ==
    <<"drop">> \o [i \in 1..(2 * Cardinality(sessions)) |-> IF i % 2 = 1 THEN "lock" ELSE "drop"]

\* Before register_active_window_change: no thread, no hook; pid 1 owns the
\* foreground window.
NoHook == [at |-> "unregistered", foreground |-> 1, pending |-> <<>>]

\* main before init_device_map, the producers being allowed to be cap events ahead.
InitEvents(cap) ==
    /\ pc = "start"
    /\ map = EmptyMap
    /\ defaults = NoDefaults
    /\ queue = <<>>
    /\ last = NoEvent
    /\ result = "None"
    /\ system = EmptyMap
    /\ children = <<>>
    /\ proc_and_children = None
    /\ found = {}
    /\ enumerated = None
    /\ added = {}
    /\ subscribed = NoSubscriptions
    /\ released = {}
    /\ removed = None
    /\ returned = "None"
    /\ capacity = cap
    /\ calls = <<>>
    /\ hook = NoHook
    /\ inflight = {}
    /\ audio = NoSessions
    /\ guards = <<>>

\* The same as the state of the whole model.
InitWith(cap) == InitEvents(cap) /\ MidiNotStarted

Init == InitWith(MaxQueue)

-----------------------------------------------------------------------------
(* Startup                                                                 *)

\* The devices DeviceInfo::new can build for one id.
NewDevices(P, id) ==
    {DeviceInfoNew(id, st, sessions) :
        st \in {x \in P.device_states : translate_state(x) # None}, sessions \in Enumerations(P)}

\* main up to the loop: init_device_map (the devices whose DeviceInfo::new failed are
\* filtered out, each leaving at most the subscription of the session it failed on;
\* the six default cells are read from the platform), then
\* register_active_window_change.  Any failing call makes main return the error.
InitDeviceMap(P) ==
    /\ pc = "start"
    /\ \E ok \in P.oks :
        IF ok
        THEN /\ \E present \in SUBSET P.device_ids :
                \E devs \in [present -> UNION {NewDevices(P, d) : d \in P.device_ids}] :
                    /\ \A d \in present : devs[d].id = d
                    /\ map' = devs
                    /\ added' = present
                    /\ \E leaked \in SUBSET {ds \in (P.device_ids \ present) \X UNION P.enums :
                                                TRUE \in P.leaks} :
                          /\ \A ds1 \in leaked, ds2 \in leaked : ds1[1] = ds2[1] => ds1 = ds2
                          /\ subscribed' = RegisterAudioSessionNotification(subscribed,
                                                SessionsOf(devs) \cup leaked)
             /\ \E ids \in [1..3 -> [1..2 -> P.default_ids]] :
                    defaults' = <<<<Some(ids[1][1]), Some(ids[1][2])>>,
                                  <<Some(ids[2][1]), Some(ids[2][2])>>,
                                  <<Some(ids[3][1]), Some(ids[3][2])>>>>
             /\ hook' = [hook EXCEPT !.at = "hooked"]
             /\ guards' = Guarded
             /\ pc' = "running"
             /\ result' = "Ok"
        ELSE /\ pc' = "stopped"
             /\ result' = "Err"
             /\ guards' \in {<<>>, Guarded}
             /\ UNCHANGED <<map, defaults, added, subscribed, hook>>
    /\ UNCHANGED <<queue, last, focusVars, enumerated, released, removed, returned, capacity,
                   calls, inflight, audio, midiVars>>

-----------------------------------------------------------------------------
(* Notification adapters: each pushes onto the channel and returns         *)

\* The events in the channel and the foreground changes still to be delivered
\* count against the capacity.
CanSend(n) == pc # "stopped" /\ Len(queue) + Len(hook.pending) + n <= capacity

Send(events) ==
    /\ CanSend(Len(events))
    /\ queue' = queue \o events
    /\ returned' = "Ok"
    /\ UNCHANGED <<pc, map, defaults, last, result, focusVars, histVars, subVars, capacity, hook, inflight, audio, midiVars, guards>>

\* A callback returning Err(Error::new(HRESULT(BAD_VALUE), ..)) before any send.
Rejects ==
    /\ pc # "stopped"
    /\ returned' = "BAD_VALUE"
    /\ UNCHANGED <<pc, map, defaults, queue, last, result, focusVars, histVars, subVars, capacity, hook, inflight, audio, midiVars, guards>>

\* MMNotificationClient::OnDefaultDeviceChanged; a bad flow or role returns the
\* error and sends nothing.
OnDefaultDeviceChanged(flow, role, default_device_id) ==
    IF FlowFromWindows(flow) = None \/ RoleFromWindows(role) = None
    THEN Rejects
    ELSE Send(<<DefaultDeviceChanged(default_device_id, FlowFromWindows(flow)[1],
                                     RoleFromWindows(role)[1])>>)

\* MMNotificationClient::OnDeviceAdded
OnDeviceAdded(device_id) == Send(<<DeviceAdded(device_id)>>)

\* An adapter that also takes the device out of the registry itself.
OnDeviceRemoved_direct(device_id) ==
    /\ CanSend(1)
    /\ queue' = Append(queue, DeviceRemoved(device_id))
    /\ map' = remove_device(map, device_id)
    /\ returned' = "Ok"
    /\ UNCHANGED <<pc, defaults, last, result, focusVars, histVars, subVars, capacity, hook,
                   inflight, audio, midiVars, guards>>

\* MMNotificationClient::OnDeviceRemoved
OnDeviceRemoved(device_id) == Send(<<DeviceRemoved(device_id)>>)

\* MMNotificationClient::OnDeviceStateChanged
OnDeviceStateChanged(device_id, new_state) == Send(<<DeviceStateChanged(device_id, new_state)>>)

\* The platform: a session with a new instance id starts on the device.  It is in
\* every enumeration of the device from now on.  RegisterSessionNotification
\* (DeviceInfo::activate) is what makes the platform call OnSessionCreated for it:
\* a device that is Active in the registry has registered, before main has built
\* the registry nothing has, and for any other device an earlier activation may
\* have (nothing in the program unregisters).
CreateSession(device_id, session_instance_id) ==
    LET session == <<device_id, session_instance_id>>
        registered == IF pc = "start" THEN {FALSE}
                      ELSE IF device_id \in DOMAIN map /\ map[device_id].state = "Active"
                           THEN {TRUE}
                           ELSE BOOLEAN
    IN  /\ pc # "stopped"
        /\ session \notin audio.live \cup audio.ended
        /\ \E notified \in registered :
              audio' = [audio EXCEPT !.live = @ \cup {session},
                                     !.announce = IF notified THEN @ \cup {session} ELSE @]
        /\ UNCHANGED <<pc, map, defaults, queue, last, result, focusVars, histVars, subVars,
                       returned, capacity, hook, inflight, guards, midiVars>>

\* An OnSessionCreated that returns Ok without sending.
OnSessionCreated_unsent(device_id, session_instance_id) ==
    /\ pc # "stopped"
    /\ returned' = "Ok"
    /\ audio' = [audio EXCEPT !.announce = @ \ {<<device_id, session_instance_id>>}]
    /\ UNCHANGED <<pc, map, defaults, queue, last, result, focusVars, histVars, subVars,
                   capacity, hook, inflight, guards, midiVars>>

\* AudioSessionNotification::OnSessionCreated: one send; the call the platform
\* owed for the session, if it is followed, is made.
OnSessionCreated(device_id, session_instance_id) ==
    /\ CanSend(1)
    /\ queue' = Append(queue, SessionCreated(device_id, session_instance_id))
    /\ returned' = "Ok"
    /\ audio' = [audio EXCEPT !.announce = @ \ {<<device_id, session_instance_id>>}]
    /\ UNCHANGED <<pc, map, defaults, last, result, focusVars, histVars, subVars,
                   capacity, hook, inflight, guards, midiVars>>

\* AudioSessionEvents::OnDisplayNameChanged
OnDisplayNameChanged(device_id, session_instance_id, new_display_name) ==
    Send(<<SessionEvent(device_id, session_instance_id, "DisplayNameChanged", new_display_name)>>)

\* AudioSessionEvents::OnIconPathChanged
OnIconPathChanged(device_id, session_instance_id) ==
    Send(<<SessionEvent(device_id, session_instance_id, "IconPathChanged", "-")>>)

\* AudioSessionEvents::OnSimpleVolumeChanged
OnSimpleVolumeChanged(device_id, session_instance_id) ==
    Send(<<SessionEvent(device_id, session_instance_id, "SimpleVolumeChanged", "-")>>)

\* AudioSessionEvents::OnGroupingParamChanged
OnGroupingParamChanged(device_id, session_instance_id) ==
    Send(<<SessionEvent(device_id, session_instance_id, "GroupingParamChanged", "-")>>)

\* An OnStateChanged that forwards the state change of an expiry before the
\* disconnect it synthesizes.
OnStateChanged_forward_first(device_id, session_instance_id, new_state) ==
    IF SessionStateFromWindows(new_state) = None
    THEN Rejects
    ELSE LET state == SessionStateFromWindows(new_state)[1]
             changed == SessionEvent(device_id, session_instance_id, "StateChanged", state)
             disconnected == SessionEvent(device_id, session_instance_id,
                                          "SessionDisconnected", "SessionExpired")
         IN  IF state = "Expired"
             THEN /\ disconnected \notin inflight
                  /\ CanSend(1)
                  /\ queue' = Append(queue, changed)
                  /\ inflight' = inflight \cup {disconnected}
                  /\ UNCHANGED <<pc, map, defaults, last, result, focusVars, histVars, subVars,
                                 returned, capacity, hook, audio, midiVars, guards>>
             ELSE Send(<<changed>>)

\* AudioSessionEvents::OnStateChanged up to its first send.  Expired sends a
\* SessionDisconnected(SessionExpired) and has the state change still to send: the
\* two are separate sends, and other callbacks, on other threads, may send between
\* them.  (The platform is taken to deliver one expiry of a session at a time.)
OnStateChanged(device_id, session_instance_id, new_state) ==
    IF SessionStateFromWindows(new_state) = None
    THEN Rejects
    ELSE LET state == SessionStateFromWindows(new_state)[1]
             changed == SessionEvent(device_id, session_instance_id, "StateChanged", state)
             disconnected == SessionEvent(device_id, session_instance_id,
                                          "SessionDisconnected", "SessionExpired")
         IN  IF state = "Expired"
             THEN /\ changed \notin inflight
                  /\ CanSend(1)
                  /\ queue' = Append(queue, disconnected)
                  /\ inflight' = inflight \cup {changed}
                  /\ UNCHANGED <<pc, map, defaults, last, result, focusVars, histVars, subVars,
                                 returned, capacity, hook, audio, midiVars, guards>>
             ELSE Send(<<changed>>)

\* AudioSessionEvents::OnStateChanged for Expired, from its second send to its return.
SendStateChanged ==
    \E event \in inflight :
        /\ CanSend(1)
        /\ queue' = Append(queue, event)
        /\ inflight' = inflight \ {event}
        /\ returned' = "Ok"
        /\ UNCHANGED <<pc, map, defaults, last, result, focusVars, histVars, subVars,
                       capacity, hook, audio, midiVars, guards>>

\* AudioSessionEvents::OnSessionDisconnected: the platform calls it as the session
\* is disconnected, so a followed session stops being live with the call.
OnSessionDisconnected(device_id, session_instance_id, disconnect_reason) ==
    IF DisconnectReasonFromWindows(disconnect_reason) = None
    THEN Rejects
    ELSE LET session == {<<device_id, session_instance_id>>} \cap audio.live
         IN  /\ CanSend(1)
             /\ queue' = Append(queue, SessionEvent(device_id, session_instance_id,
                                 "SessionDisconnected",
                                 DisconnectReasonFromWindows(disconnect_reason)[1]))
             /\ returned' = "Ok"
             /\ audio' = [audio EXCEPT !.live = @ \ session, !.ended = @ \cup session]
             /\ UNCHANGED <<pc, map, defaults, last, result, focusVars, histVars, subVars,
                            capacity, hook, inflight, guards, midiVars>>

\* The platform: the foreground window changes to a window owned by pid. Once
\* SetWinEventHook has run, the change is recorded for the hook's thread
\* (WINEVENT_OUTOFCONTEXT: delivered when that thread retrieves messages).
ForegroundChange(pid) ==
    /\ pc # "stopped"
    /\ IF hook.at = "unregistered"
       THEN hook' = [hook EXCEPT !.foreground = pid]
       ELSE /\ CanSend(1)
            /\ hook' = [hook EXCEPT !.foreground = pid, !.pending = Append(@, pid)]
    /\ UNCHANGED <<pc, map, defaults, queue, last, result, focusVars, histVars, subVars,
                   returned, capacity, inflight, audio, midiVars, guards>>

\* The thread of register_active_window_change after SetWinEventHook: it reads the
\* foreground window's pid, sends it, and enters the message loop.
SendForeground ==
    /\ hook.at = "hooked"
    /\ CanSend(1)
    /\ queue' = Append(queue, ActiveWindowChange(hook.foreground))
    /\ hook' = [hook EXCEPT !.at = "pumping"]
    /\ UNCHANGED <<pc, map, defaults, last, result, focusVars, histVars, subVars,
                   returned, capacity, inflight, audio, midiVars, guards>>

\* A callback that the platform may also call before the tracker's thread has sent
\* the foreground pid.
win_event_hook_callback_early(pid) ==
    /\ pc # "stopped"
    /\ hook.at \in {"hooked", "pumping"}
    /\ hook.pending # <<>>
    /\ pid = Head(hook.pending)
    /\ queue' = Append(queue, ActiveWindowChange(pid))
    /\ hook' = [hook EXCEPT !.pending = Tail(@)]
    /\ UNCHANGED <<pc, map, defaults, last, result, focusVars, histVars, subVars,
                   returned, capacity, inflight, audio, midiVars, guards>>

\* win_event_hook_callback, called from GetMessageW in the loop of the tracker's
\* thread with the next recorded EVENT_SYSTEM_FOREGROUND: one send.
win_event_hook_callback(pid) ==
    /\ pc # "stopped"
    /\ hook.at = "pumping"
    /\ hook.pending # <<>>
    /\ pid = Head(hook.pending)
    /\ queue' = Append(queue, ActiveWindowChange(pid))
    /\ hook' = [hook EXCEPT !.pending = Tail(@)]
    /\ UNCHANGED <<pc, map, defaults, last, result, focusVars, histVars, subVars,
                   returned, capacity, inflight, audio, midiVars, guards>>

-----------------------------------------------------------------------------
(* The reconciler: the loop of main                                        *)

\* `for event in event_rx` delivering an event of this type and kind.
Receives(type, kind) ==
    /\ pc = "running"
    /\ queue # <<>>
    /\ Head(queue).type = type
    /\ kind \in {"*", Head(queue).kind}

\* A receive that takes the newest event of the channel.
Receive_newest ==
    /\ queue' = SubSeq(queue, 1, Len(queue) - 1)
    /\ last' = queue[Len(queue)]

\* `for event in event_rx`: the oldest event leaves the channel.
Receive ==
    /\ queue' = Tail(queue)
    /\ last' = Head(queue)

\* The handler returned Ok(()), returned an error (main returns it with `?`) or panicked.
Ends(how) ==
    /\ result' = how
    /\ pc' = IF how = "Ok" THEN "running" ELSE "stopped"

\* handle_device_event, arm DefaultDeviceChanged
HandleDefaultDeviceChanged ==
    /\ Receives("Device", "DefaultDeviceChanged")
    /\ Receive
    /\ LET event == Head(queue)
       IN  IF event.device_id \notin DOMAIN map
           THEN defaults' = defaults
           ELSE defaults' = set_defaults(defaults, event.a, event.b, event.device_id)
    /\ Ends("Ok")
    /\ enumerated' = None
    /\ released' = {}
    /\ calls' = <<>>
    /\ guards' = Guarded
    /\ UNCHANGED <<map, focusVars, added, subscribed, removed, returned, capacity, hook, inflight, audio, midiVars>>

\* handle_device_event, arm DeviceAdded: GetDevice and DeviceInfo::new, then the insert,
\* which drops the entry it replaces while the guard is held.
HandleDeviceAdded(P) ==
    /\ Receives("Device", "DeviceAdded")
    /\ Receive
    /\ LET device_id == Head(queue).device_id
           old == SessionsOf(map) \cap PairsOf(device_id, SessionIds)
       IN  /\ added' = added \cup {device_id}
           /\ \E ok \in P.oks, state \in P.device_states, sessions \in Enumerations(P) :
                IF ok /\ translate_state(state) # None
                THEN LET device_info == DeviceInfoNew(device_id, state, sessions)
                     IN  /\ map' = insert_device(map, device_info)
                         /\ subscribed' = UnregisterAudioSessionNotification(
                                RegisterAudioSessionNotification(subscribed,
                                    PairsOf(device_id, DOMAIN device_info.session_map)),
                                old)
                         /\ released' = old
                         /\ enumerated' = IF state = "DEVICE_STATE_ACTIVE"
                                          THEN Some(DOMAIN sessions) ELSE None
                         /\ calls' = IF state = "DEVICE_STATE_ACTIVE"
                                     THEN ActivationCalls(FALSE) ELSE <<>>
                         /\ Ends("Ok")
                ELSE /\ UNCHANGED map
                     /\ \E leaked \in Leaks(P, device_id, DOMAIN sessions) :
                          /\ subscribed' = RegisterAudioSessionNotification(subscribed, leaked)
                          /\ calls' \in (IF leaked = {} THEN {<<>>} ELSE {})
                                \cup (IF ok \/ state # "DEVICE_STATE_ACTIVE" THEN {}
                                      ELSE {FailedAt(ActivationCalls(FALSE), 1)}
                                              \cup FailedActivations(FALSE, leaked # {}))
                     /\ released' = {}
                     /\ enumerated' = None
                     /\ Ends("Err")
    /\ guards' = IF result' = "Ok" THEN Guarded ELSE <<>>
    /\ UNCHANGED <<defaults, focusVars, removed, returned, capacity, hook, inflight, audio, midiVars>>

\* handle_device_event, arm DeviceRemoved, while the guard is held: the entry moves
\* from the map to the local `removed`.
HandleDeviceRemoved ==
    /\ Receives("Device", "DeviceRemoved")
    /\ Receive
    /\ LET device_id == Head(queue).device_id
       IN  /\ map' = remove_device(map, device_id)
           /\ removed' = IF device_id \in DOMAIN map THEN Some(map[device_id]) ELSE None
           /\ added' = added \ {device_id}
    /\ pc' = "dropping"
    /\ result' = "None"
    /\ enumerated' = None
    /\ released' = {}
    /\ calls' = <<>>
    /\ guards' = Guarded
    /\ UNCHANGED <<defaults, focusVars, subscribed, returned, capacity, hook, inflight, audio, midiVars>>

\* handle_device_event, arm DeviceRemoved, after drop(device_map_guard): the message
\* is printed and `removed` goes out of scope, which drops its session entries.
DropRemoved ==
    /\ pc = "dropping"
    /\ LET gone == IF removed = None THEN {}
                   ELSE PairsOf(removed[1].id, DOMAIN removed[1].session_map)
       IN  /\ subscribed' = UnregisterAudioSessionNotification(subscribed, gone)
           /\ released' = gone
    /\ removed' = None
    /\ Ends("Ok")
    /\ guards' = <<>>
    /\ UNCHANGED <<map, defaults, queue, last, focusVars, histVars, returned, capacity, hook, inflight, audio, midiVars>>

\* handle_device_event, arm DeviceStateChanged.  set_state unwraps: a bad state value
\* or a failing Activate panics before the state is assigned, a failure inside
\* activate panics after it, with only part of the enumeration inserted.  An insert
\* of activate drops the entry it replaces.
HandleDeviceStateChanged(P) ==
    /\ Receives("Device", "DeviceStateChanged")
    /\ Receive
    /\ LET device_id == Head(queue).device_id
           new_state == Head(queue).a
           old == SessionsOf(map) \cap PairsOf(device_id, SessionIds)
       IN  IF device_id \notin DOMAIN map
           THEN /\ UNCHANGED <<map, subscribed>>
                /\ released' = {}
                /\ enumerated' = None
                /\ calls' = <<>>
                /\ Ends("Ok")
           ELSE \E ok1 \in P.oks, ok2 \in P.oks, sessions \in Enumerations(P) :
                  IF translate_state(new_state) = None
                        \/ (new_state = "DEVICE_STATE_ACTIVE" /\ ~ok1)
                  THEN /\ UNCHANGED <<map, subscribed>>
                       /\ released' = {}
                       /\ enumerated' = None
                       /\ calls' = IF translate_state(new_state) = None THEN <<>>
                                   ELSE FailedAt(ActivationCalls(TRUE), 1)
                       /\ Ends("Panic")
                  ELSE IF new_state = "DEVICE_STATE_ACTIVE" /\ ~ok2
                  THEN /\ \E part \in SUBSET DOMAIN sessions :
                            /\ map' = [map EXCEPT ![device_id] =
                                        set_state(@, new_state, Restrict(sessions, part))]
                            /\ released' = old \cap PairsOf(device_id, part)
                            /\ \E leaked \in Leaks(P, device_id, DOMAIN sessions \ part) :
                                 /\ subscribed' = UnregisterAudioSessionNotification(
                                        RegisterAudioSessionNotification(
                                            RegisterAudioSessionNotification(subscribed,
                                                PairsOf(device_id, part)), leaked),
                                        old \cap PairsOf(device_id, part))
                                 /\ calls' \in FailedActivations(TRUE, part # {} \/ leaked # {})
                       /\ enumerated' = None
                       /\ Ends("Panic")
                  ELSE LET fresh == IF new_state = "DEVICE_STATE_ACTIVE"
                                    THEN PairsOf(device_id, DOMAIN sessions) ELSE {}
                       IN  /\ map' = [map EXCEPT ![device_id] = set_state(@, new_state, sessions)]
                           /\ subscribed' = UnregisterAudioSessionNotification(
                                  RegisterAudioSessionNotification(subscribed, fresh),
                                  old \cap fresh)
                           /\ released' = old \cap fresh
                           /\ enumerated' = IF new_state = "DEVICE_STATE_ACTIVE"
                                            THEN Some(DOMAIN sessions) ELSE None
                           /\ calls' = IF new_state = "DEVICE_STATE_ACTIVE"
                                       THEN ActivationCalls(TRUE) ELSE <<>>
                           /\ Ends("Ok")
    /\ guards' = Guarded
    /\ UNCHANGED <<defaults, focusVars, added, removed, returned, capacity, hook, inflight, audio, midiVars>>

\* A drop of a SessionCreated event that is reported as an error.
Dropped_is_error == "Err"

\* What the SessionCreated arm returns when the device is not found, is not Active
\* or the session is not in the enumeration: it prints and returns Ok(()).
Dropped == "Ok"

\* handle_device_event, arm SessionCreated: a fresh enumeration (all_sessions), then
\* SessionInfo::new(..).unwrap() for the session named by the event; the insert drops
\* the entry it replaces.
HandleSessionCreated(P) ==
    /\ Receives("Device", "SessionCreated")
    /\ Receive
    /\ LET device_id == Head(queue).device_id
           session_instance_id == Head(queue).session_instance_id
           this == {<<device_id, session_instance_id>>}
           enumeration == Call("GetSessionEnumerator", TRUE, TRUE)
       IN  IF device_id \notin DOMAIN map \/ map[device_id].state # "Active"
           THEN /\ UNCHANGED <<map, subscribed>>
                /\ released' = {}
                /\ enumerated' = None
                /\ calls' = <<>>
                /\ Ends(Dropped)
           ELSE \E ok1 \in P.oks, ok2 \in P.oks, sessions \in Enumerations(P) :
                  IF ~ok1
                  THEN /\ UNCHANGED <<map, subscribed>>
                       /\ released' = {}
                       /\ enumerated' = None
                       /\ calls' = FailedAt(<<enumeration>>, 1)
                       /\ Ends("Err")
                  ELSE /\ enumerated' = Some(DOMAIN sessions)
                       /\ calls' = IF session_instance_id \notin DOMAIN sessions
                                   THEN <<enumeration>>
                                   ELSE <<enumeration, Call("SessionInfo::new", ok2, TRUE)>>
                       /\ IF session_instance_id \notin DOMAIN sessions
                          THEN UNCHANGED <<map, subscribed>> /\ released' = {} /\ Ends(Dropped)
                          ELSE IF ~ok2
                          THEN /\ UNCHANGED map
                               /\ \E leaked \in Leaks(P, device_id, {session_instance_id}) :
                                    subscribed' = RegisterAudioSessionNotification(subscribed, leaked)
                               /\ released' = {}
                               /\ Ends("Panic")
                          ELSE /\ map' = [map EXCEPT ![device_id] =
                                    insert_session(@, session_instance_id,
                                        SessionInfoNew(session_instance_id,
                                                       sessions[session_instance_id]))]
                               /\ subscribed' = UnregisterAudioSessionNotification(
                                      RegisterAudioSessionNotification(subscribed, this),
                                      this \cap SessionsOf(map))
                               /\ released' = this \cap SessionsOf(map)
                               /\ Ends("Ok")
    /\ guards' = Guarded
    /\ UNCHANGED <<defaults, focusVars, added, removed, returned, capacity, hook, inflight, audio, midiVars>>

\* A lookup miss that is returned as an error.
NotFound_is_error == "Err"

\* What handle_session_event returns when the device or the session is not found:
\* it prints and returns Ok(()).
NotFound == "Ok"

\* A match whose StateChanged arm removes the session as well.
Removes_on_state_change(event) == event.kind \in {"SessionDisconnected", "StateChanged"}

\* The arm of handle_session_event that calls session_map.remove: SessionDisconnected.
Removes(event) == event.kind = "SessionDisconnected"

\* handle_session_event; the entry that session_map.remove returns is dropped at
\* once, while the guard is held.
HandleSessionEvent(P) ==
    /\ Receives("Session", "*")
    /\ Receive
    /\ LET event == Head(queue)
           device_id == event.device_id
           session_instance_id == event.session_instance_id
           quiet == UNCHANGED <<map, subscribed>> /\ released' = {}
       IN  IF device_id \notin DOMAIN map
           THEN quiet /\ calls' = <<>> /\ Ends(NotFound)
           ELSE IF session_instance_id \notin DOMAIN map[device_id].session_map
           THEN quiet /\ calls' = <<>> /\ Ends(NotFound)
           ELSE CASE event.kind = "DisplayNameChanged" ->
                       \E ok \in P.oks, found_ \in P.lookups :
                          /\ calls' = IF event.a = "" THEN <<Call("GetProcessId", ok, TRUE)>>
                                      ELSE <<>>
                          /\ IF event.a = "" /\ ~ok
                             THEN quiet /\ Ends("Err")
                             ELSE /\ map' = [map EXCEPT
                                        ![device_id].session_map[session_instance_id] =
                                            set_display_name(@, Some(event.a),
                                                IF found_ THEN Some(ProcessName(@.pid))
                                                ELSE None)]
                                  /\ UNCHANGED subscribed
                                  /\ released' = {}
                                  /\ Ends("Ok")
                  [] Removes(event) ->
                       /\ map' = [map EXCEPT ![device_id] = remove_session(@, session_instance_id)]
                       /\ subscribed' = UnregisterAudioSessionNotification(subscribed,
                              SessionsOf(map) \ SessionsOf(map'))
                       /\ released' = SessionsOf(map) \ SessionsOf(map')
                       /\ calls' = <<>>
                       /\ Ends("Ok")
                  [] OTHER -> quiet /\ calls' = <<>> /\ Ends("Ok")
    /\ enumerated' = None
    /\ guards' = Guarded
    /\ UNCHANGED <<defaults, focusVars, added, removed, returned, capacity, hook, inflight, audio, midiVars>>

\* The ActiveWindowChange arm up to the loop of pid_and_child_pids: the snapshot is
\* taken, find_sessions_for_pid locks the registry and the vector is initialised.
HandleActiveWindowChange(P) ==
    /\ Receives("ActiveWindowChange", "*")
    /\ Receive
    /\ \E snapshot \in P.systems : system' = snapshot
    /\ children' = <<{Head(queue).n}>>
    /\ proc_and_children' = None
    /\ found' = {}
    /\ pc' = "expanding"
    /\ enumerated' = None
    /\ released' = {}
    /\ calls' = <<>>
    /\ guards' = Scanning
    /\ UNCHANGED <<map, defaults, result, added, subscribed, removed, returned, capacity, hook, inflight, audio, midiVars>>

\* One iteration of the loop of pid_and_child_pids that does not break.
ExpandRound ==
    /\ pc = "expanding"
    /\ new_children(system, last_set(children)) # {}
    /\ children' = push(children, new_children(system, last_set(children)))
    /\ guards' = <<>>
    /\ UNCHANGED <<pc, map, defaults, queue, last, result, system, proc_and_children, found,
                   histVars, subVars, returned, capacity, hook, inflight, audio, midiVars>>

\* The iteration that breaks: pid_and_child_pids returns, find_sessions_for_pid scans
\* the registry and the arm prints what it found.
ExpandDone ==
    /\ pc = "expanding"
    /\ new_children(system, last_set(children)) = {}
    /\ proc_and_children' = Some(Flatten(children))
    /\ found' = ScanSessions(map, Flatten(children))
    /\ pc' = "running"
    /\ result' = "Ok"
    /\ guards' = ReportLocks(found')
    /\ UNCHANGED <<map, defaults, queue, last, system, children, histVars, subVars, returned, capacity, hook, inflight, audio, midiVars>>

-----------------------------------------------------------------------------
(* Specifications                                                          *)

\* A platform on which no call fails, with one active session owner and no names.
Platform ==
    [device_ids |-> DeviceIds,
     device_states |-> {"DEVICE_STATE_ACTIVE", "DEVICE_STATE_DISABLED"},
     enums |-> SUBSET SessionIds,
     pids |-> {1},
     names |-> {""},
     lookups |-> {TRUE},
     oks |-> {TRUE},
     leaks |-> {FALSE},
     default_ids |-> {"d1"},
     systems |-> Systems]

\* The device and session lifecycle: devices come and go and change state, sessions
\* are created and disconnected, and platform calls may fail. One session stands
\* for those whose volume changes: the event leaves the registry as it is.  The
\* sessions announced and disconnected one by one are those of d1, also while d1
\* is not in the registry; those of d2 come and go with the device.
PlatformRegistry == [Platform EXCEPT !.oks = BOOLEAN]

NextRegistry ==
    \/ InitDeviceMap(PlatformRegistry)
    \/ \E d \in DeviceIds : OnDeviceAdded(d)
    \/ \E d \in DeviceIds : OnDeviceRemoved(d)
    \/ \E d \in DeviceIds, st \in {"DEVICE_STATE_ACTIVE", "DEVICE_STATE_DISABLED"} :
          OnDeviceStateChanged(d, st)
    \/ \E s \in SessionIds : OnSessionCreated("d1", s)
    \/ OnSimpleVolumeChanged("d1", "s1")
    \/ \E s \in SessionIds :
          OnSessionDisconnected("d1", s, "DisconnectReasonDeviceRemoval")
    \/ HandleDeviceAdded(PlatformRegistry)
    \/ HandleDeviceRemoved
    \/ DropRemoved
    \/ HandleDeviceStateChanged(PlatformRegistry)
    \/ HandleSessionCreated(PlatformRegistry)
    \/ HandleSessionEvent(PlatformRegistry)

SpecRegistry == Init /\ [][NextRegistry]_vars

\* The default-device matrix: default-device notifications for devices that come and go.
PlatformDefaults ==
    [Platform EXCEPT !.device_states = {"DEVICE_STATE_DISABLED"}]

NextDefaults ==
    \/ InitDeviceMap(PlatformDefaults)
    \/ \E d \in DeviceIds, flow \in WindowsEDataFlow, role \in {"eConsole", "eMultimedia", "eOther"} :
          OnDefaultDeviceChanged(flow, role, d)
    \/ \E d \in DeviceIds : OnDeviceAdded(d)
    \/ \E d \in DeviceIds : OnDeviceRemoved(d)
    \/ HandleDefaultDeviceChanged
    \/ HandleDeviceAdded(PlatformDefaults)
    \/ HandleDeviceRemoved
    \/ DropRemoved

SpecDefaults == Init /\ [][NextDefaults]_vars

\* pid_and_child_pids on every snapshot and start pid: the state at the entry of the
\* loop, for a focus event received with an empty registry.
InitTree ==
    /\ MidiNotStarted
    /\ pc = "expanding"
    /\ map = EmptyMap
    /\ defaults = NoDefaults
    /\ queue = <<>>
    /\ \E p \in Pids : last = ActiveWindowChange(p) /\ children = <<{p}>>
    /\ result = "None"
    /\ system \in Systems
    /\ proc_and_children = None
    /\ found = {}
    /\ enumerated = None
    /\ added = {}
    /\ subscribed = NoSubscriptions
    /\ released = {}
    /\ removed = None
    /\ returned = "None"
    /\ capacity = MaxQueue
    /\ calls = <<>>
    /\ hook = [NoHook EXCEPT !.at = "pumping"]
    /\ inflight = {}
    /\ audio = NoSessions
    /\ guards = Scanning

NextTree == ExpandRound \/ ExpandDone

SpecTree == InitTree /\ [][NextTree]_vars

\* Snapshots for the focus correlation: a chain 1 -> 2 -> 3, a parent with two
\* children, unrelated processes, a parent that has exited, and pids 1 and 2 each
\* recorded as the other's parent (pid 1 was reused by a child of 2).
FocusSystems ==
    {[p \in {1, 2, 3} |-> IF p = 1 THEN None ELSE Some(p - 1)],
     [p \in {1, 2, 3} |-> IF p = 1 THEN None ELSE Some(1)],
     [p \in {1, 2, 3} |-> None],
     [p \in {2, 3} |-> Some(1)],
     [p \in {1, 2} |-> Some(3 - p)]}

PlatformFocus ==
    [Platform EXCEPT !.device_states = {"DEVICE_STATE_ACTIVE"}, !.pids = Pids,
                     !.systems = FocusSystems]

NextFocus ==
    \/ InitDeviceMap(PlatformFocus)
    \/ \E p \in Pids : ForegroundChange(p)
    \/ SendForeground
    \/ \E p \in Pids : win_event_hook_callback(p)
    \/ HandleActiveWindowChange(PlatformFocus)
    \/ ExpandRound
    \/ ExpandDone

SpecFocus == Init /\ [][NextFocus]_vars

\* Session display names: one device whose sessions are created, renamed and
\* disconnected, the platform reporting empty and non-empty names, the process
\* table knowing the owner or not, and calls failing or not.
PlatformNames ==
    [Platform EXCEPT !.device_ids = {"d1"}, !.device_states = {"DEVICE_STATE_ACTIVE"},
                     !.names = {"", "song"}, !.lookups = BOOLEAN, !.oks = BOOLEAN]

NextNames ==
    \/ InitDeviceMap(PlatformNames)
    \/ \E s \in SessionIds : OnSessionCreated("d1", s)
    \/ \E s \in SessionIds, name \in {"", "song"} : OnDisplayNameChanged("d1", s, name)
    \/ \E s \in SessionIds : OnSessionDisconnected("d1", s, "DisconnectReasonSessionLogoff")
    \/ HandleSessionCreated(PlatformNames)
    \/ HandleSessionEvent(PlatformNames)

SpecNames == Init /\ [][NextNames]_vars

\* Malformed platform values: after a regular startup every notification carries a
\* value outside the known set and every device added reports an unknown state.
\* (No DefaultDeviceChanged and no session event is enqueued, so their handlers
\* have nothing to receive.)
PlatformStart == [Platform EXCEPT !.device_states = {"DEVICE_STATE_ACTIVE"}]

PlatformBadValues == [Platform EXCEPT !.device_states = {"DEVICE_STATE_OTHER"}]

NextBadValues ==
    \/ InitDeviceMap(PlatformStart)
    \/ \E d \in DeviceIds, flow \in WindowsEDataFlow, role \in WindowsERole :
          /\ flow = "eOther" \/ role = "eOther"
          /\ OnDefaultDeviceChanged(flow, role, d)
    \/ \E d \in DeviceIds : OnDeviceAdded(d)
    \/ \E d \in DeviceIds : OnDeviceRemoved(d)
    \/ \E d \in DeviceIds : OnDeviceStateChanged(d, "DEVICE_STATE_OTHER")
    \/ \E d \in DeviceIds, s \in SessionIds : OnStateChanged(d, s, "AudioSessionStateOther")
    \/ \E d \in DeviceIds, s \in SessionIds : OnSessionDisconnected(d, s, "DisconnectReasonOther")
    \/ HandleDeviceAdded(PlatformBadValues)
    \/ HandleDeviceRemoved
    \/ DropRemoved
    \/ HandleDeviceStateChanged(PlatformBadValues)

SpecBadValues == Init /\ [][NextBadValues]_vars

\* The order of events: one device and one session, with device, session and focus
\* notifications raised while earlier ones are still in the channel.
PlatformFifo ==
    [Platform EXCEPT !.device_ids = {"d1"}, !.device_states = {"DEVICE_STATE_ACTIVE"},
                     !.enums = {{"s1"}},
                     !.systems = {[p \in {1, 2} |-> IF p = 1 THEN None ELSE Some(1)]}]

InitFifo == InitWith(MaxFifo)

NextFifo ==
    \/ InitDeviceMap(PlatformFifo)
    \/ OnDeviceAdded("d1")
    \/ OnDeviceRemoved("d1")
    \/ OnSimpleVolumeChanged("d1", "s1")
    \/ OnSessionDisconnected("d1", "s1", "DisconnectReasonSessionLogoff")
    \/ \E p \in {1, 2} : ForegroundChange(p)
    \/ SendForeground
    \/ \E p \in {1, 2} : win_event_hook_callback(p)
    \/ HandleDeviceAdded(PlatformFifo)
    \/ HandleDeviceRemoved
    \/ DropRemoved
    \/ HandleSessionEvent(PlatformFifo)
    \/ HandleActiveWindowChange(PlatformFifo)
    \/ ExpandRound
    \/ ExpandDone

SpecFifo == InitFifo /\ [][NextFifo]_vars

\* Failing session creations: platform calls may fail, and a SessionInfo::new that
\* fails may do so after its RegisterAudioSessionNotification (GetState, the
\* conversion of the state and GetProcessId come after it).
PlatformLeaks ==
    [Platform EXCEPT !.device_ids = {"d1"}, !.oks = BOOLEAN, !.leaks = BOOLEAN]

NextLeaks ==
    \/ InitDeviceMap(PlatformLeaks)
    \/ OnDeviceAdded("d1")
    \/ OnDeviceRemoved("d1")
    \/ OnDeviceStateChanged("d1", "DEVICE_STATE_ACTIVE")
    \/ \E s \in SessionIds : OnSessionCreated("d1", s)
    \/ \E s \in SessionIds : OnSessionDisconnected("d1", s, "DisconnectReasonSessionLogoff")
    \/ HandleDeviceAdded(PlatformLeaks)
    \/ HandleDeviceRemoved
    \/ DropRemoved
    \/ HandleDeviceStateChanged(PlatformLeaks)
    \/ HandleSessionCreated(PlatformLeaks)
    \/ HandleSessionEvent(PlatformLeaks)

SpecLeaks == Init /\ [][NextLeaks]_vars

\* Session state changes: the sessions of one device become active, inactive and
\* expired while their volume changes and they are announced, the callbacks racing
\* on the channel.
NextExpiry ==
    \/ InitDeviceMap(PlatformFifo)
    \/ \E s \in SessionIds, st \in AudioSessionState \ {"AudioSessionStateOther"} :
          OnStateChanged("d1", s, st)
    \/ SendStateChanged
    \/ OnSimpleVolumeChanged("d1", "s1")
    \/ OnSessionCreated("d1", "s1")
    \/ HandleSessionCreated(PlatformFifo)
    \/ HandleSessionEvent(PlatformFifo)

SpecExpiry == InitFifo /\ [][NextExpiry]_vars

\* The sessions of one device followed on the platform: they start, are announced
\* and are disconnected while the device changes state and is removed.  No
\* call fails, and an enumeration returns the sessions that are live.
PlatformSessions ==
    [Platform EXCEPT !.device_ids = {"d1"},
                     !.enums = {{s \in SessionIds : <<"d1", s>> \in audio.live}}]

\* The platform calling OnSessionCreated for a session it has still to announce.
Announce(session_instance_id) ==
    /\ <<"d1", session_instance_id>> \in audio.announce
    /\ OnSessionCreated("d1", session_instance_id)

\* The steps of main: startup and the handling of one received event.
Reconciler ==
    \/ InitDeviceMap(PlatformSessions)
    \/ HandleDeviceRemoved
    \/ DropRemoved
    \/ HandleDeviceStateChanged(PlatformSessions)
    \/ HandleSessionCreated(PlatformSessions)
    \/ HandleSessionEvent(PlatformSessions)

NextSessions ==
    \/ Reconciler
    \/ \E s \in SessionIds : CreateSession("d1", s)
    \/ \E s \in SessionIds : Announce(s)
    \/ \E s \in SessionIds :
          /\ <<"d1", s>> \in audio.live
          /\ OnSessionDisconnected("d1", s, "DisconnectReasonSessionLogoff")
    \/ \E st \in {"DEVICE_STATE_ACTIVE", "DEVICE_STATE_DISABLED"} :
          OnDeviceStateChanged("d1", st)
    \/ OnDeviceRemoved("d1")

\* A SessionCreated event may wait behind another event.
InitSessions == InitWith(MaxQueue + 1)

SpecSessions == InitSessions /\ [][NextSessions]_vars

\* main runs: it starts, and `for event in event_rx` handles an event whenever
\* one is waiting.  The platform makes every OnSessionCreated call it owes; the
\* send of the call does not block, the channel being unbounded.
FairSessions ==
    /\ SpecSessions
    /\ WF_vars(Reconciler)
    /\ \A s \in SessionIds : WF_vars(Announce(s))

\* init_device_map up to RegisterEndpointNotificationCallback: from here on the
\* platform calls the client for every device it adds or removes.  The channel the
\* client sends into exists since main created it, before init_device_map.
RegisterEndpointNotificationCallback ==
    /\ pc = "start"
    /\ ~audio.client
    /\ audio' = [audio EXCEPT !.client = TRUE]
    /\ UNCHANGED <<pc, map, defaults, queue, last, result, focusVars, histVars, subVars,
                   returned, capacity, hook, inflight, guards, midiVars>>

\* The platform telling its registered clients of a device change; without a
\* client the change is told to nobody.
Notify(event) ==
    IF audio.client
    THEN /\ CanSend(1)
         /\ queue' = Append(queue, event)
         /\ returned' = "Ok"
    ELSE /\ UNCHANGED <<queue, returned>>

\* A device is plugged in (an id is not used again): the platform has it from now
\* on and calls MMNotificationClient::OnDeviceAdded.
DeviceArrives(device_id) ==
    /\ pc # "stopped"
    /\ device_id \notin audio.present \cup audio.gone
    /\ audio' = [audio EXCEPT !.present = @ \cup {device_id}]
    /\ Notify(DeviceAdded(device_id))
    /\ UNCHANGED <<pc, map, defaults, last, result, focusVars, histVars, subVars, capacity,
                   hook, inflight, guards, midiVars>>

\* A device is unplugged: the platform has it no longer and calls
\* MMNotificationClient::OnDeviceRemoved.
DeviceLeaves(device_id) ==
    /\ pc # "stopped"
    /\ device_id \in audio.present
    /\ audio' = [audio EXCEPT !.present = @ \ {device_id}, !.gone = @ \cup {device_id}]
    /\ Notify(DeviceRemoved(device_id))
    /\ UNCHANGED <<pc, map, defaults, last, result, focusVars, histVars, subVars, capacity,
                   hook, inflight, guards, midiVars>>

\* The platform as init_device_map finds it: the enumeration returns the devices
\* plugged in at that moment, and no call fails.
PlatformAtStartup ==
    [Platform EXCEPT !.device_ids = audio.present, !.enums = {{}}]

\* The platform as the DeviceAdded arm finds it: GetDevice succeeds for a device that
\* is plugged in; for one unplugged since the notification it may return an error.
PlatformAfterStartup ==
    [Platform EXCEPT !.enums = {{}},
                     !.oks = IF queue # <<>> /\ Head(queue).device_id \in audio.present
                             THEN {TRUE} ELSE BOOLEAN]

\* The steps of main from its first line: init_device_map in its two parts (every
\* enumerated device is built), then the loop over the device events.
MainFromStartup ==
    \/ RegisterEndpointNotificationCallback
    \/ /\ audio.client
       /\ InitDeviceMap(PlatformAtStartup)
       /\ DOMAIN map' = audio.present
    \/ HandleDeviceAdded(PlatformAfterStartup)
    \/ HandleDeviceRemoved
    \/ DropRemoved

NextStartup ==
    \/ MainFromStartup
    \/ \E d \in DeviceIds : DeviceArrives(d)
    \/ \E d \in DeviceIds : DeviceLeaves(d)

\* main runs: it starts, and `for event in event_rx` handles an event whenever one
\* is waiting.
FairStartup == InitSessions /\ [][NextStartup]_vars /\ WF_vars(MainFromStartup)

-----------------------------------------------------------------------------
(* The MIDI dispatcher (src/main.rs, src/controls.rs, src/controls/trigger.rs) *)

\* The values the triggers and the messages are drawn from: channels (u4), notes,
\* controllers and other 7-bit data (u7), the quarter-frame pieces, pitch bends
\* as the i16 of a trigger, and 14-bit values (pitch bends as sent, song positions).
Channels == {0, 1}
Notes == {89, 90}
Values7 == {0, 15, 127}
MtcMessages == {0, 7}
Values4 == {0, 15}
BendInts == {-8192, 0, 100, 8191, 8192}
Values14 == {0, 200, 8192, 8292, 16383}

ValueMatchType == {"Exact", "ThresholdOrAbove", "ThresholdOrBelow"}

\* The MIDI messages with a channel whose trigger names a note or a controller, those
\* whose trigger names the channel only, and the system messages with and without
\* a value.
NoteKinds == {"NoteOn", "NoteOff", "Aftertouch", "Controller"}
ChannelKinds == {"ProgramChange", "ChannelAftertouch"}
CommonKinds == {"MtcQuarterFrame", "SongPosition", "SongSelect", "TuneRequest"}
RealtimeKinds == {"TimingClock", "Start", "Continue", "Stop", "ActiveSensing", "Reset"}

\* u7::default(), u4::default(), u14::default()
Default == 0

\* midly's PitchBend: 14 bits as sent, the middle standing for no bend.
PitchBend_mid_raw_value == 8192

PitchBend_from_int(int) ==
    (IF int < -8192 THEN -8192 ELSE IF int > 8191 THEN 8191 ELSE int) + 8192

PitchBend_as_int(bend) == bend - 8192

\* midly's LiveEvent: the class (Midi, Common, Realtime), the message, and of its
\* fields the channel, the key (the note, the controller, the quarter-frame piece)
\* and the value (velocity, pressure, program, bend, position, song), 0 where the
\* message has none.
LiveEvent(class, kind, channel, key, value) ==
    [class |-> class, kind |-> kind, channel |-> channel, key |-> key, value |-> value]

ClassOf(kind) ==
    IF kind \in CommonKinds THEN "Common"
    ELSE IF kind \in RealtimeKinds THEN "Realtime" ELSE "Midi"

\* One variant of TriggerMidiMessage; `note` is the note, the controller or the
\* quarter-frame piece, `value` the velocity, pressure, program, bend, position or
\* song, and a trigger of a message without a value has none of them.
Trigger(kind, channel, note, value, match_type) ==
    [kind |-> kind, channel |-> channel, note |-> note, value |-> value,
     match_type |-> match_type]

\* The match on self.match_type in every is_triggered_by.
Compare(match_type, value, threshold) ==
    CASE match_type = "Exact" -> value = threshold
      [] match_type = "ThresholdOrAbove" -> value >= threshold
      [] match_type = "ThresholdOrBelow" -> value <= threshold

\* Trigger::is_triggered_by of the seventeen triggers.
is_triggered_by(self, event) ==
    /\ event.class = ClassOf(self.kind)
    /\ event.kind = self.kind
    /\ CASE self.kind \in NoteKinds ->
                /\ self.channel = event.channel
                /\ self.note = event.key
                /\ Compare(self.match_type, event.value, self.value)
         [] self.kind \in ChannelKinds ->
                /\ self.channel = event.channel
                /\ Compare(self.match_type, event.value, self.value)
         [] self.kind = "PitchBend" ->
                /\ self.channel = event.channel
                /\ Compare(self.match_type, PitchBend_as_int(event.value), self.value)
         [] self.kind = "MtcQuarterFrame" ->
                /\ self.note = event.key
                /\ Compare(self.match_type, event.value, self.value)
         [] self.kind \in {"SongPosition", "SongSelect"} ->
                Compare(self.match_type, event.value, self.value)
         [] OTHER -> TRUE

HasValue(kind) == kind \notin RealtimeKinds \cup {"TuneRequest"}

\* The event a key is made of: the fields of the trigger its message has, and the
\* value given.
KeyEvent(self, value) ==
    LiveEvent(ClassOf(self.kind), self.kind,
              IF ClassOf(self.kind) = "Midi" THEN self.channel ELSE 0,
              IF self.kind \in NoteKinds \cup {"MtcQuarterFrame"} THEN self.note ELSE 0,
              value)

\* A threshold key that keeps the value of the trigger.
threshold_hash_key_inner_value_kept(self) ==
    IF HasValue(self.kind) /\ self.match_type # "Exact"
    THEN Some(KeyEvent(self, IF self.kind = "PitchBend" THEN PitchBend_from_int(self.value)
                             ELSE IF HasValue(self.kind) THEN self.value ELSE 0))
    ELSE None

\* Control::threshold_hash_key_inner: for a threshold trigger the event with the
\* value at its default (the bend at the middle); None for an Exact trigger and
\* for a trigger of a message without a value.
threshold_hash_key_inner(self) ==
    IF HasValue(self.kind) /\ self.match_type # "Exact"
    THEN Some(KeyEvent(self, IF self.kind = "PitchBend" THEN PitchBend_mid_raw_value
                             ELSE Default))
    ELSE None

\* Control::exact_hash_key_inner: for an Exact trigger the event with the value of
\* the trigger, and the event itself for a trigger of a message without a value.
exact_hash_key_inner(self) ==
    IF ~HasValue(self.kind) \/ self.match_type = "Exact"
    THEN Some(KeyEvent(self, IF self.kind = "PitchBend" THEN PitchBend_from_int(self.value)
                             ELSE IF HasValue(self.kind) THEN self.value ELSE 0))
    ELSE None

\* The status byte of a channel message is its high nibble with the channel.
StatusNibble(kind) ==
    CASE kind = "NoteOff" -> 8
      [] kind = "NoteOn" -> 9
      [] kind = "Aftertouch" -> 10
      [] kind = "Controller" -> 11
      [] kind = "ProgramChange" -> 12
      [] kind = "ChannelAftertouch" -> 13
      [] kind = "PitchBend" -> 14

SystemStatus(kind) ==
    CASE kind = "MtcQuarterFrame" -> 241
      [] kind = "SongPosition" -> 242
      [] kind = "SongSelect" -> 243
      [] kind = "TuneRequest" -> 246
      [] kind = "TimingClock" -> 248
      [] kind = "Start" -> 250
      [] kind = "Continue" -> 251
      [] kind = "Stop" -> 252
      [] kind = "ActiveSensing" -> 254
      [] kind = "Reset" -> 255

\* From<LiveEvent> for MidiBytes: LiveEvent::write, the status byte and the data
\* bytes, a 14-bit value as its low and its high seven bits.
MidiBytes(event) ==
    CASE event.kind \in NoteKinds ->
            <<StatusNibble(event.kind) * 16 + event.channel, event.key, event.value>>
      [] event.kind \in ChannelKinds ->
            <<StatusNibble(event.kind) * 16 + event.channel, event.value>>
      [] event.kind = "PitchBend" ->
            <<StatusNibble(event.kind) * 16 + event.channel, event.value % 128,
              event.value \div 128>>
      [] event.kind = "MtcQuarterFrame" ->
            <<SystemStatus(event.kind), event.key * 16 + event.value>>
      [] event.kind = "SongPosition" ->
            <<SystemStatus(event.kind), event.value % 128, event.value \div 128>>
      [] event.kind = "SongSelect" ->
            <<SystemStatus(event.kind), event.value>>
      [] OTHER -> <<SystemStatus(event.kind)>>

\* The data bytes that follow a status byte.
DataLen(status) ==
    IF status < 240
    THEN (IF status \div 16 \in {12, 13} THEN 1 ELSE 2)
    ELSE CASE status = 242 -> 2
           [] status \in {241, 243} -> 1
           [] OTHER -> 0

KindOfStatus(status) ==
    IF status < 240
    THEN CHOOSE kind \in NoteKinds \cup ChannelKinds \cup {"PitchBend"} :
            StatusNibble(kind) = status \div 16
    ELSE CHOOSE kind \in CommonKinds \cup RealtimeKinds : SystemStatus(kind) = status

\* LiveEvent::parse of one complete message of the kinds above (system exclusive
\* and the undefined statuses are not followed): None is its Err (no status byte
\* first, data bytes missing or no data bytes).
parse(raw) ==
    IF raw = <<>> \/ raw[1] < 128 \/ raw[1] \in {240, 244, 245, 247, 249, 253}
    THEN None
    ELSE LET status == raw[1]
             kind == KindOfStatus(status)
             data == Tail(raw)
         IN  IF Len(data) # DataLen(status) \/ \E i \in DOMAIN data : data[i] > 127
             THEN None
             ELSE Some(CASE status < 240 /\ DataLen(status) = 1 ->
                               LiveEvent("Midi", kind, status % 16, 0, data[1])
                         [] status < 224 /\ DataLen(status) = 2 ->
                               LiveEvent("Midi", kind, status % 16, data[1], data[2])
                         [] status \in 224..239 ->
                               LiveEvent("Midi", kind, status % 16, 0, data[1] + 128 * data[2])
                         [] status = 241 ->
                               LiveEvent("Common", kind, 0, (data[1] \div 16) % 8, data[1] % 16)
                         [] status = 242 ->
                               LiveEvent("Common", kind, 0, 0, data[1] + 128 * data[2])
                         [] status = 243 ->
                               LiveEvent("Common", kind, 0, 0, data[1])
                         [] OTHER ->
                               LiveEvent(ClassOf(kind), kind, 0, 0, 0))

\* live_event_without_value: the message with its value at the default (a bend at
\* the middle); a message without a value as it is.  parse(..).unwrap() panics
\* on a message that does not parse: None here.
live_event_without_value(event) ==
    IF parse(event) = None
    THEN None
    ELSE LET parsed == parse(event)[1]
         IN  Some(MidiBytes(
                IF ~HasValue(parsed.kind) THEN parsed
                ELSE [parsed EXCEPT !.value = IF parsed.kind = "PitchBend"
                                              THEN PitchBend_mid_raw_value
                                              ELSE Default]))

\* Control::exact_hash_key and Control::threshold_hash_key: the key event as bytes.
exact_hash_key(self) ==
    IF exact_hash_key_inner(self) = None THEN None
    ELSE Some(MidiBytes(exact_hash_key_inner(self)[1]))

threshold_hash_key(self) ==
    IF threshold_hash_key_inner(self) = None THEN None
    ELSE Some(MidiBytes(threshold_hash_key_inner(self)[1]))

\* The triggers of every variant over the values above, the fields a variant does
\* not have being 0 and its match type Exact.
Triggers ==
    {Trigger(kind, channel, note, value, match_type) :
        kind \in {"NoteOn"}, channel \in Channels, note \in Notes,
        value \in Values7, match_type \in ValueMatchType}
    \cup {Trigger(kind, 1, 90, value, match_type) :
        kind \in NoteKinds \ {"NoteOn"}, value \in Values7 \ {0}, match_type \in ValueMatchType}
    \cup {Trigger(kind, channel, 0, value, match_type) :
        kind \in ChannelKinds, channel \in Channels, value \in Values7 \ {0},
        match_type \in ValueMatchType}
    \cup {Trigger("PitchBend", 1, 0, value, match_type) :
        value \in BendInts, match_type \in ValueMatchType}
    \cup {Trigger("MtcQuarterFrame", 0, note, 15, match_type) :
        note \in MtcMessages, match_type \in ValueMatchType}
    \cup {Trigger("SongPosition", 0, 0, value, match_type) :
        value \in {200, 16383}, match_type \in ValueMatchType}
    \cup {Trigger("SongSelect", 0, 0, 15, match_type) : match_type \in ValueMatchType}
    \cup {Trigger(kind, 0, 0, 0, "Exact") : kind \in RealtimeKinds \cup {"TuneRequest"}}

\* The events a device may send, and as messages: their bytes, and two byte strings
\* that are no message (a data byte first, a note-on cut short).
LiveEvents ==
    {LiveEvent("Midi", kind, channel, key, value) :
        kind \in {"NoteOn"}, channel \in Channels, key \in Notes, value \in Values7}
    \cup {LiveEvent("Midi", kind, 1, 90, value) :
        kind \in NoteKinds \ {"NoteOn"}, value \in Values7}
    \cup {LiveEvent("Midi", kind, channel, 0, 15) : kind \in ChannelKinds, channel \in Channels}
    \cup {LiveEvent("Midi", "PitchBend", 1, 0, value) : value \in Values14}
    \cup {LiveEvent("Common", "MtcQuarterFrame", 0, key, value) :
        key \in MtcMessages, value \in Values4}
    \cup {LiveEvent("Common", "SongPosition", 0, 0, value) : value \in {0, 200, 16383}}
    \cup {LiveEvent("Common", "SongSelect", 0, 0, value) : value \in {0, 15}}
    \cup {LiveEvent(ClassOf(kind), kind, 0, 0, 0) : kind \in RealtimeKinds \cup {"TuneRequest"}}

Messages == {MidiBytes(event) : event \in LiveEvents} \cup {<<15>>, <<144, 90>>}

\* main before the registration loop, with the controls it is given.
InitControls(given) ==
    /\ midi_pc = "start"
    /\ controls \in given
    /\ exact_midi_events = EmptyMap
    /\ threshold_midi_events = EmptyMap
    /\ midi_input = <<>>
    /\ bytes = None
    /\ invoked = <<>>

\* The registration loop up to control i, for one of the two tables: insert puts
\* vec![control] under the key, in the place of what was there.
RECURSIVE insert_controls(_, _, _)
insert_controls(controls_, i, threshold) ==
    IF i = 0
    THEN EmptyMap
    ELSE LET key == IF threshold THEN threshold_hash_key(controls_[i])
                    ELSE exact_hash_key(controls_[i])
             before == insert_controls(controls_, i - 1, threshold)
         IN  IF key = None THEN before ELSE MapInsert(before, key[1], <<i>>)

\* main, `for control in controls`: both tables are filled.
RegisterControls ==
    /\ midi_pc = "start"
    /\ exact_midi_events' = insert_controls(controls, Len(controls), FALSE)
    /\ threshold_midi_events' = insert_controls(controls, Len(controls), TRUE)
    /\ midi_pc' = "listening"
    /\ UNCHANGED <<controls, midi_input, bytes, invoked, eventsVars>>

\* The callback given to midi_in.connect: the message goes into the channel.  One
\* message is followed at a time.
MidiIn(message) ==
    /\ midi_pc = "listening"
    /\ midi_input = <<>>
    /\ midi_input' = Append(midi_input, message)
    /\ UNCHANGED <<midi_pc, controls, exact_midi_events, threshold_midi_events, bytes,
                   invoked, eventsVars>>

\* HashMap::get(..).into_iter().flatten(): the controls under the key, if any.
get(table, key) == IF key \in DOMAIN table THEN table[key] ELSE <<>>

\* One iteration of main's loop: the message is received, looked up as it is in
\* exact_midi_events and without its value in threshold_midi_events, and
\* handle_midi_event is called on the controls found.  A message that does not
\* parse makes live_event_without_value panic.
Dispatch ==
    /\ midi_pc = "listening"
    /\ midi_input # <<>>
    /\ LET message == Head(midi_input)
           event_without_value == live_event_without_value(message)
       IN  /\ bytes' = Some(message)
           /\ midi_input' = Tail(midi_input)
           /\ IF event_without_value = None
              THEN /\ invoked' = get(exact_midi_events, message)
                   /\ midi_pc' = "panicked"
              ELSE /\ invoked' = get(exact_midi_events, message)
                                    \o get(threshold_midi_events, event_without_value[1])
                   /\ midi_pc' = "listening"
    /\ UNCHANGED <<controls, exact_midi_events, threshold_midi_events, eventsVars>>

\* The dispatcher with one control, of every variant, and every message.
InitTriggers ==
    /\ InitEvents(MaxQueue)
    /\ InitControls({<<trigger>> : trigger \in Triggers})

NextTriggers ==
    \/ RegisterControls
    \/ \E message \in Messages : MidiIn(message)
    \/ Dispatch

SpecTriggers == InitTriggers /\ [][NextTriggers]_vars

\* Controls on one note of one channel that compare its velocity in the three ways,
\* one on another note, and one on a message without a value; and the messages
\* that trigger them, with one that does not parse.
SharedTriggers ==
    {Trigger("NoteOn", 0, 90, 15, "ThresholdOrAbove"),
     Trigger("NoteOn", 0, 90, 127, "ThresholdOrBelow"),
     Trigger("NoteOn", 0, 90, 127, "Exact"),
     Trigger("NoteOn", 0, 89, 127, "Exact"),
     Trigger("TuneRequest", 0, 0, 0, "Exact")}

SharedMessages ==
    {MidiBytes(LiveEvent("Midi", "NoteOn", 0, 90, 15)),
     MidiBytes(LiveEvent("Midi", "NoteOn", 0, 90, 127)),
     MidiBytes(LiveEvent("Midi", "NoteOn", 0, 89, 127)),
     MidiBytes(LiveEvent("Common", "TuneRequest", 0, 0, 0)),
     <<15>>}

\* The dispatcher with any controls of these, the same one more than once too.
InitMidi ==
    /\ InitEvents(MaxQueue)
    /\ InitControls(UNION {[1..n -> SharedTriggers] : n \in 0..MaxControls})

NextMidi ==
    \/ RegisterControls
    \/ \E message \in SharedMessages : MidiIn(message)
    \/ Dispatch

SpecMidi == InitMidi /\ [][NextMidi]_vars

\* Everything together, on a platform with one device and one session (the expiry
\* of a session, which takes two sends, is in SpecExpiry).
PlatformSmall ==
    [Platform EXCEPT !.device_ids = {"d1"}, !.enums = SUBSET {"s1"}, !.oks = BOOLEAN,
                     !.systems = {[p \in {1, 2} |-> IF p = 1 THEN None ELSE Some(1)]}]

Next ==
    \/ InitDeviceMap(PlatformSmall)
    \/ OnDefaultDeviceChanged("eAll", "eConsole", "d1")
    \/ OnDeviceAdded("d1")
    \/ OnDeviceRemoved("d1")
    \/ \E st \in DEVICE_STATE : OnDeviceStateChanged("d1", st)
    \/ OnSessionCreated("d1", "s1")
    \/ OnDisplayNameChanged("d1", "s1", "")
    \/ OnIconPathChanged("d1", "s1")
    \/ OnSimpleVolumeChanged("d1", "s1")
    \/ OnGroupingParamChanged("d1", "s1")
    \/ \E st \in AudioSessionState \ {"AudioSessionStateExpired"} :
          OnStateChanged("d1", "s1", st)
    \/ \E reason \in AudioSessionDisconnectReason : OnSessionDisconnected("d1", "s1", reason)
    \/ \E p \in {1, 2} : ForegroundChange(p)
    \/ SendForeground
    \/ \E p \in {1, 2} : win_event_hook_callback(p)
    \/ HandleDefaultDeviceChanged
    \/ HandleDeviceAdded(PlatformSmall)
    \/ HandleDeviceRemoved
    \/ DropRemoved
    \/ HandleDeviceStateChanged(PlatformSmall)
    \/ HandleSessionCreated(PlatformSmall)
    \/ HandleSessionEvent(PlatformSmall)
    \/ HandleActiveWindowChange(PlatformSmall)
    \/ ExpandRound
    \/ ExpandDone

Spec == Init /\ [][Next]_vars

-----------------------------------------------------------------------------
(* Properties of the device and session lifecycle (SpecRegistry)           *)

\* The loop of main is alive: main has neither returned nor panicked.
Alive == pc # "stopped"

\* The step is the reconciler receiving and handling this event.
Handles(event) ==
    /\ pc = "running"
    /\ queue # <<>>
    /\ Head(queue) = event
    /\ queue' = Tail(queue)

\* C1: while the reconciler runs, the device ids in the registry map are the ids
\* enumerated at startup or added by a DeviceAdded event, minus the ids removed by a
\* later DeviceRemoved event, whatever session events are interleaved.
C1_DeviceSetIsAddedMinusRemoved == Alive => DOMAIN map = added

\* C1 witness: d2 was added and is in the map with a session, and the event handled
\* last removed d1.
C1_Witness ==
    /\ pc = "running"
    /\ last = DeviceRemoved("d1")
    /\ added = {"d2"}
    /\ DOMAIN map = {"d2"}
    /\ DOMAIN map["d2"].session_map # {}

\* C2: handling SessionDisconnected(device, session) ends with Ok and with the
\* session absent from the device's session map; when the session (or the device)
\* was already absent, as for a second disconnect, the registry is left unchanged.
C2_DisconnectRemovesOnce ==
    [][\A d \in DeviceIds, s \in SessionIds :
         Handles(SessionEvent(d, s, "SessionDisconnected", "DeviceRemoval")) =>
            /\ result' = "Ok"
            /\ pc' = "running"
            /\ DOMAIN map' = DOMAIN map
            /\ d \in DOMAIN map' => s \notin DOMAIN map'[d].session_map
            /\ (d \notin DOMAIN map \/ s \notin DOMAIN map[d].session_map) =>
                  (map' = map /\ defaults' = defaults)]_vars

\* C2 witness: a disconnect of (d1, s1) was handled, s1 is gone from d1 while s2 is
\* still there, and the same disconnect is in the channel a second time.
C2_Witness ==
    /\ pc = "running"
    /\ last = SessionEvent("d1", "s1", "SessionDisconnected", "DeviceRemoval")
    /\ result = "Ok"
    /\ "d1" \in DOMAIN map
    /\ DOMAIN map["d1"].session_map = {"s2"}
    /\ queue # <<>>
    /\ Head(queue) = last

\* C7: when DeviceStateChanged(Active) for a device is handled twice in a row and the
\* platform answers the second time as it did the first (the same sessions are
\* enumerated, no call fails), the second handling leaves the device's state and the
\* key set of its session map as the first left them.
C7_ActiveTwiceIsActiveOnce ==
    [][\A d \in DeviceIds :
         (/\ Handles(DeviceStateChanged(d, "DEVICE_STATE_ACTIVE"))
          /\ last = Head(queue)
          /\ d \in DOMAIN map
          /\ result' = "Ok"
          /\ enumerated' = enumerated) =>
            /\ map'[d].state = map[d].state
            /\ DOMAIN map'[d].session_map = DOMAIN map[d].session_map]_vars

\* C7 witness: DeviceStateChanged(Active) for d1 was handled, d1 is Active with the
\* enumerated session s1 in its map, and the same event is in the channel again.
C7_Witness ==
    /\ pc = "running"
    /\ last = DeviceStateChanged("d1", "DEVICE_STATE_ACTIVE")
    /\ result = "Ok"
    /\ enumerated = Some({"s1"})
    /\ "d1" \in DOMAIN map
    /\ map["d1"].state = "Active"
    /\ "s1" \in DOMAIN map["d1"].session_map
    /\ queue # <<>>
    /\ Head(queue) = last

-----------------------------------------------------------------------------
(* Properties of the default-device matrix (SpecDefaults)                  *)

\* The cell of the matrix for a role and a flow: rows are Console, Multimedia,
\* Communications and columns Render, Capture.
Cell(role, flow) ==
    LET row == CASE role = "Console" -> defaults[1]
                 [] role = "Multimedia" -> defaults[2]
                 [] role = "Communications" -> defaults[3]
    IN  IF flow = "Render" THEN row[1] ELSE row[2]

\* C3: once DefaultDeviceChanged(Render, Console) for device X has been handled, the
\* (Console, Render) cell that get_default_device reads names X, whether or not X was
\* in the device map when the event was handled, and the query yields X's entry as
\* soon as X is in the map.
C3_DefaultRoundTrip ==
    (Alive /\ last.kind = "DefaultDeviceChanged" /\ last.a = "Render" /\ last.b = "Console") =>
        /\ Cell("Console", "Render") = Some(last.device_id)
        /\ last.device_id \in DOMAIN map =>
              get_default_device(defaults, map, "Render", "Console") = Some(map[last.device_id])

\* C4: every DefaultDeviceChanged(flow, role) for device X the reconciler handles
\* leaves X in the cells of that role for that flow (both flows for All), whether or
\* not X is in the device map, and no other step of the reconciler changes a cell.
C4_MatrixFollowsNotifications ==
    [][(pc = "running" /\ queue # <<>> /\ queue' = Tail(queue)) =>
          LET event == Head(queue)
          IN  \A role \in ERole, flow \in {"Render", "Capture"} :
                Cell(role, flow)' =
                    IF /\ event.kind = "DefaultDeviceChanged"
                       /\ event.b = role
                       /\ event.a \in {flow, "All"}
                    THEN Some(event.device_id)
                    ELSE Cell(role, flow)]_vars

\* C5: for flow Render or Capture, get_default_device yields the device entry exactly
\* when the (role, flow) cell holds an id that is a key of the device map, and None,
\* not a panic, when the cell is empty or holds an id that is not in the map.
C5_GetDefault ==
    \A role \in ERole, flow \in {"Render", "Capture"} :
        LET cell == Cell(role, flow)
            got == get_default_device(defaults, map, flow, role)
        IN  /\ got # Panicked
            /\ cell = None => got = None
            /\ (cell # None /\ cell[1] \notin DOMAIN map) => got = None
            /\ (cell # None /\ cell[1] \in DOMAIN map) => got = Some(map[cell[1]])

\* C5 witness: the Console cells differ; Render names d2, which is not in the map,
\* and Capture names d1, which is.
C5_Witness ==
    /\ pc = "running"
    /\ DOMAIN map = {"d1"}
    /\ Cell("Console", "Render") = Some("d2")
    /\ Cell("Console", "Capture") = Some("d1")
    /\ get_default_device(defaults, map, "Render", "Console") = None
    /\ get_default_device(defaults, map, "Capture", "Console") = Some(map["d1"])

\* C6: handling DefaultDeviceChanged(All, role) for device X sets the Render and the
\* Capture cell of that role to X and leaves the cells of the other roles as they were.
C6_AllFansOut ==
    [][\A d \in DeviceIds, role \in ERole :
         Handles(DefaultDeviceChanged(d, "All", role)) =>
            /\ Cell(role, "Render")' = Some(d)
            /\ Cell(role, "Capture")' = Some(d)
            /\ \A other \in ERole \ {role}, flow \in {"Render", "Capture"} :
                  Cell(other, flow)' = Cell(other, flow)]_vars

-----------------------------------------------------------------------------
(* Properties of the focus correlation (SpecTree, SpecFocus)               *)

\* The pids reachable from the pids of acc by parent links read downwards.
RECURSIVE Closure(_, _)
Closure(system_, acc) ==
    LET more == acc \cup {q \in DOMAIN system_ : system_[q] # None /\ system_[q][1] \in acc}
    IN  IF more = acc THEN acc ELSE Closure(system_, more)

\* {p} and every transitive descendant of p in the snapshot.
PidAndDescendants(system_, p) == Closure(system_, {p})

\* C8: what pid_and_child_pids returns for a snapshot and a pid p is exactly {p}
\* with all transitive descendants of p under the snapshot's parent links.
C8_ReturnsPidAndDescendants ==
    proc_and_children # None =>
        proc_and_children = Some(PidAndDescendants(system, last.n))

\* C8 witness: on the chain 1 -> 2 -> 3 the walk from 1 returned {1, 2, 3}.
C8_Witness ==
    /\ system = [p \in {1, 2, 3} |-> IF p = 1 THEN None ELSE Some(p - 1)]
    /\ last = ActiveWindowChange(1)
    /\ proc_and_children = Some({1, 2, 3})

\* C9: whatever the parent links of the snapshot, the walk ends: no pid enters the
\* vector of pid sets twice, so the vector never holds more sets than the snapshot
\* has pids, the start pid counted.
C9_WalkEndsEachPidOnce ==
    pc = "expanding" =>
        /\ \A i, j \in 1..Len(children) : i # j => children[i] \cap children[j] = {}
        /\ Len(children) <= Cardinality(DOMAIN system \cup {last.n})

\* The sessions of the registry owned by p or by a descendant of p.
SessionsOwnedUnder(p) ==
    {ds \in DeviceIds \X SessionIds :
        /\ ds[1] \in DOMAIN map
        /\ ds[2] \in DOMAIN map[ds[1]].session_map
        /\ map[ds[1]].session_map[ds[2]].pid \in PidAndDescendants(system, p)}

\* C10: what find_sessions_for_pid returns for a focus change to p is exactly the
\* (device id, session instance id) pairs, over every device of the registry, of the
\* sessions owned by p or by a descendant of p.
C10_FindsExactlyOwnedSessions ==
    (pc = "running" /\ last.type = "ActiveWindowChange" /\ proc_and_children # None) =>
        found = SessionsOwnedUnder(last.n)

\* C10 witness: on the chain 1 -> 2 -> 3 focus went to pid 2; d1 has a session of
\* pid 3, which is found, and d2 a session of pid 1, which is not.
C10_Witness ==
    /\ pc = "running"
    /\ last = ActiveWindowChange(2)
    /\ system = [p \in {1, 2, 3} |-> IF p = 1 THEN None ELSE Some(p - 1)]
    /\ proc_and_children = Some({2, 3})
    /\ DOMAIN map = {"d1", "d2"}
    /\ "s1" \in DOMAIN map["d1"].session_map /\ map["d1"].session_map["s1"].pid = 3
    /\ "s1" \in DOMAIN map["d2"].session_map /\ map["d2"].session_map["s1"].pid = 1
    /\ found = {<<"d1", "s1">>}

-----------------------------------------------------------------------------
(* Properties of session display names (SpecNames)                         *)

\* C11: no session entry ever has the empty string as display name; a session that
\* enters the map with an empty reported name, or for which DisplayNameChanged with an
\* empty name is handled, has the name of its owning process if the process table
\* knows the pid and None otherwise, and a non-empty reported name is stored as it is.
\* (A rename whose GetProcessId call fails returns the error and changes no name.)
C11_DisplayNameNeverEmpty ==
    [][\A ds \in SessionsOf(map') :
         LET now == map'[ds[1]].session_map[ds[2]]
             fallback == {None, Some(ProcessName(now.pid))}
         IN  /\ now.display_name # Some("")
             /\ ds \notin SessionsOf(map) => now.display_name \in fallback \cup {Some("song")}
             /\ (/\ ds \in SessionsOf(map)
                 /\ Handles(SessionEvent(ds[1], ds[2], "DisplayNameChanged", ""))
                 /\ result' = "Ok") =>
                   now.display_name \in fallback
             /\ (ds \in SessionsOf(map) /\ Handles(SessionEvent(ds[1], ds[2], "DisplayNameChanged", "song"))) =>
                   now.display_name = Some("song")]_vars

\* C11 witness: session s1 was renamed to the empty string and
\* now carries the name of its owning process; s2 was created with an empty name and
\* an owner the process table does not know.
C11_Witness ==
    /\ pc = "running"
    /\ last = SessionEvent("d1", "s1", "DisplayNameChanged", "")
    /\ result = "Ok"
    /\ SessionsOf(map) = {<<"d1", "s1">>, <<"d1", "s2">>}
    /\ map["d1"].session_map["s1"].display_name = Some(ProcessName(1))
    /\ map["d1"].session_map["s2"].display_name = None

-----------------------------------------------------------------------------
(* Properties of device states and failures (SpecRegistry, SpecBadValues)   *)

\* C12: a device whose state is Disabled, NotPresent or Unplugged has an empty session
\* map: a state change out of Active clears the sessions of the prior activation.
C12_InactiveDeviceHasNoSessions ==
    \A d \in DOMAIN map : map[d].state # "Active" => DOMAIN map[d].session_map = {}


C14_LoopSurvivesFailures ==
    last # NoEvent => Alive

\* C16: when handling DeviceStateChanged(Active) fails, because the session-management
\* handle cannot be acquired or the session-created subscription or the enumeration
\* fails, the failure is returned to the caller as an error value and the device is
\* left in a state other than Active.
C16_FailedActivationIsReturned ==
    [][\A d \in DOMAIN map :
         (Handles(DeviceStateChanged(d, "DEVICE_STATE_ACTIVE")) /\ result' # "Ok") =>
            /\ result' = "Err"
            /\ map'[d].state # "Active"]_vars


\* C17: a platform value outside the known set is never mapped to a known variant.
\* Each conversion yields the bad-value error for it; a callback given such a flow,
\* role, session state or disconnect reason returns that error and enqueues nothing,
\* so the only state-change events in the channel carry the raw device state; and
\* handling an unknown device state, in DeviceStateChanged or in DeviceAdded, fails
\* and leaves the registry as it was.
C17_BadValuesAreRejected ==
    [][/\ FlowFromWindows("eOther") = None
       /\ RoleFromWindows("eOther") = None
       /\ SessionStateFromWindows("AudioSessionStateOther") = None
       /\ DisconnectReasonFromWindows("DisconnectReasonOther") = None
       /\ translate_state("DEVICE_STATE_OTHER") = None
       /\ \A i \in DOMAIN queue' :
             /\ queue'[i].kind \in {"DeviceAdded", "DeviceRemoved", "DeviceStateChanged"}
             /\ queue'[i].kind = "DeviceStateChanged" => queue'[i].a = "DEVICE_STATE_OTHER"
       /\ (returned' = "BAD_VALUE" /\ returned # "BAD_VALUE") =>
             (queue' = queue /\ map' = map /\ defaults' = defaults)
       /\ \A d \in DOMAIN map' : map'[d].state \in DeviceState
       /\ \A d \in DeviceIds :
             /\ Handles(DeviceStateChanged(d, "DEVICE_STATE_OTHER")) =>
                   /\ map' = map /\ defaults' = defaults /\ subscribed' = subscribed
                   /\ d \in DOMAIN map => result' = "Panic"
             /\ Handles(DeviceAdded(d)) =>
                   /\ map' = map /\ defaults' = defaults
                   /\ result' = "Err"]_vars

\* C17 witness: a callback was given a bad value and returned the error, and the
\* DeviceStateChanged event carrying an unknown state for d1, which is in the
\* registry and Active, has been handled: it failed and d1 is still Active.
C17_Witness ==
    /\ returned = "BAD_VALUE"
    /\ last = DeviceStateChanged("d1", "DEVICE_STATE_OTHER")
    /\ result = "Panic"
    /\ "d1" \in DOMAIN map
    /\ map["d1"].state = "Active"
    /\ queue = <<>>

\* C19: handling DeviceRemoved for an id that is not in the device map leaves the
\* registry as it was, and for an id that is in the map removes that entry and no
\* other; in both cases the arm then returns Ok and the loop goes on.
C19_RemoveExactlyThatDevice ==
    [][/\ \A d \in DeviceIds :
             Handles(DeviceRemoved(d)) =>
                /\ map' = [x \in DOMAIN map \ {d} |-> map[x]]
                /\ defaults' = defaults
                /\ d \notin DOMAIN map => (map' = map /\ removed' = None)
                /\ pc' = "dropping"
       /\ (pc = "dropping" /\ pc' # "dropping") =>
             /\ result' = "Ok"
             /\ pc' = "running"
             /\ map' = map
             /\ defaults' = defaults
             /\ removed = None => subscribed' = subscribed]_vars

\* C19 witness: DeviceRemoved for d1 was handled while d1 and d2 were in the map, each
\* with a session; d1 is gone, its session with it, and d2 is as it was.
C19_Witness ==
    /\ pc = "running"
    /\ last = DeviceRemoved("d1")
    /\ result = "Ok"
    /\ released = {<<"d1", "s1">>}
    /\ SessionsOf(map) = {<<"d2", "s2">>}
    /\ map["d2"].state = "Active"

-----------------------------------------------------------------------------
(* Properties of the reconciler as a whole (Spec, SpecFifo)                *)

\* C15: a session event of any kind whose device id is not in the registry, or whose
\* session instance id is not in that device's session map, is dropped: the handler
\* returns Ok, the loop goes on and the registry is as it was.
C15_UnknownSessionEventDropped ==
    [][(/\ pc = "running" /\ queue # <<>> /\ queue' = Tail(queue)
        /\ Head(queue).type = "Session"
        /\ <<Head(queue).device_id, Head(queue).session_instance_id>> \notin SessionsOf(map)) =>
          /\ result' = "Ok"
          /\ pc' = "running"
          /\ map' = map
          /\ defaults' = defaults
          /\ subscribed' = subscribed]_vars

\* C15 witness: a DisplayNameChanged for session s1 of d1 was handled while d1 was in
\* the registry without that session, and a SessionDisconnected for it is next.
C15_Witness ==
    /\ pc = "running"
    /\ last = SessionEvent("d1", "s1", "DisplayNameChanged", "")
    /\ result = "Ok"
    /\ DOMAIN map = {"d1"}
    /\ SessionsOf(map) = {}
    /\ queue = <<SessionEvent("d1", "s1", "SessionDisconnected", "FormatChanged")>>


\* C18: the reconciler applies events in the order of the channel.  A step either
\* leaves the channel alone, or appends to its end and changes nothing of the
\* registry, or is the reconciler, at its receive with the previous event fully
\* handled, taking the oldest event off the front; the registry changes only in
\* steps of the reconciler, for the event it took last.
C18_EventsAppliedInChannelOrder ==
    [][/\ \/ queue' = queue
          \/ /\ Len(queue') > Len(queue)
             /\ SubSeq(queue', 1, Len(queue)) = queue
             /\ UNCHANGED <<map, defaults, last, pc>>
          \/ /\ pc = "running"
             /\ queue # <<>>
             /\ queue' = Tail(queue)
             /\ last' = Head(queue)
       /\ (pc # "start" /\ <<map, defaults>>' # <<map, defaults>>) =>
             (queue' = Tail(queue) /\ last' = Head(queue))]_vars

\* C18 witness: a device event, a session event and a focus event were in the
\* channel together; the device event, the oldest, has been handled and the other
\* two are still waiting in the order they were sent.
C18_Witness ==
    /\ pc = "running"
    /\ last = DeviceAdded("d1")
    /\ result = "Ok"
    /\ queue = <<SessionEvent("d1", "s1", "SimpleVolumeChanged", "-"), ActiveWindowChange(1)>>

\* The events of the channel that are focus changes.
FocusEvents(q) == SelectSeq(q, LAMBDA e : e.type = "ActiveWindowChange")

\* Before the tracker's thread has sent the foreground pid, no focus event has
\* been sent: none is in the channel and none was received.
NoFocusEventYet == FocusEvents(queue) = <<>> /\ last.type # "ActiveWindowChange"

\* C20: the focus tracker sends one focus event at startup, carrying the pid that
\* owns the foreground window when its thread reads it, and no focus event is
\* sent before that one; it never sends a second startup event; every later
\* focus event is the single event sent for the oldest foreground change the
\* hook has recorded and not yet delivered, which is thereby consumed, so that a
\* foreground change yields at most one event.  (Checked with the producers up
\* to MaxFifo events ahead, so that startup and hook events share the channel.)
C20_OneFocusEventPerChange ==
    [][/\ hook.at # "pumping" => NoFocusEventYet
       /\ hook'.at # "pumping" => NoFocusEventYet'
       /\ hook.at = "pumping" => hook'.at = "pumping"
       /\ hook.at = "hooked" /\ hook'.at = "pumping"
             => /\ queue' = Append(queue, ActiveWindowChange(hook.foreground))
                /\ hook'.pending = hook.pending
       /\ Len(FocusEvents(queue')) > Len(FocusEvents(queue))
             => /\ Len(queue') = Len(queue) + 1
                /\ SubSeq(queue', 1, Len(queue)) = queue
                /\ \/ /\ hook.at = "hooked"
                      /\ hook'.at = "pumping"
                      /\ queue'[Len(queue')] = ActiveWindowChange(hook.foreground)
                      /\ hook'.pending = hook.pending
                   \/ /\ hook.at = "pumping"
                      /\ hook.pending # <<>>
                      /\ queue'[Len(queue')] = ActiveWindowChange(Head(hook.pending))
                      /\ hook'.pending = Tail(hook.pending)]_vars

\* The startup event for pid 1 is in the channel, nothing received yet, followed by
\* the event of a change to pid 2, while a change back to pid 1 awaits delivery.
C20_Witness ==
    /\ pc = "running"
    /\ last = NoEvent
    /\ hook = [at |-> "pumping", foreground |-> 1, pending |-> <<1>>]
    /\ queue = <<ActiveWindowChange(1), ActiveWindowChange(2)>>

-----------------------------------------------------------------------------
(* Properties of activation, subscriptions and the lock (SpecRegistry)     *)

\* The step is the loop receiving and handling DeviceStateChanged(new_state) for a
\* device of the registry whose state is Active.
ReceivesStateOfActive(new_state) ==
    /\ Receives("Device", "DeviceStateChanged")
    /\ queue' = Tail(queue)
    /\ Head(queue).a = new_state
    /\ Head(queue).device_id \in DOMAIN map
    /\ map[Head(queue).device_id].state = "Active"

\* C21: handling DeviceStateChanged(Active) for a device that is already Active does
\* nothing: no Activate call acquires a handle, no session-created subscription is
\* registered, no enumeration is made, and no session entry is replaced by a new
\* one (so no session-level subscription is registered or unregistered).
C21_ReactivationIsNoOp ==
    [][ReceivesStateOfActive("DEVICE_STATE_ACTIVE")
          => /\ calls' = <<>>
             /\ released' = {}
             /\ subscribed' = subscribed
             /\ map' = map]_vars

\* The last handler activated a device or tried to: DeviceInfo::new in the
\* DeviceAdded arm, set_state in the DeviceStateChanged arm.
LastWasActivation == last.type = "Device" /\ last.kind \in {"DeviceAdded", "DeviceStateChanged"}

\* The i-th call of the last handler was preceded by a successful registration of
\* the session-created subscription.
RegisteredBefore(i) ==
    \E j \in 1..(i - 1) : calls[j] = [calls[i] EXCEPT !.call = "RegisterSessionNotification",
                                                     !.ok = TRUE]

\* C22: in an activation, at device creation and on DeviceStateChanged(Active) alike,
\* the session enumeration is requested only after the session-created subscription
\* was registered successfully, and after a failed call nothing more is called; so a
\* handler that reports an enumeration has registered first.
C22_RegistersBeforeEnumerating ==
    LastWasActivation =>
        /\ \A i \in 1..Len(calls) :
              /\ calls[i].call = "GetSessionEnumerator" => RegisteredBefore(i)
              /\ ~calls[i].ok => i = Len(calls)
        /\ enumerated # None => \E i \in 1..Len(calls) :
              calls[i].call = "GetSessionEnumerator" /\ calls[i].ok

\* A state change to Active registered, then enumerated s1 and s2 and created both.
C22_Witness ==
    /\ pc = "running"
    /\ last = DeviceStateChanged("d1", "DEVICE_STATE_ACTIVE")
    /\ result = "Ok"
    /\ calls = ActivationCalls(TRUE)
    /\ enumerated = Some({"s1", "s2"})
    /\ DOMAIN map["d1"].session_map = {"s1", "s2"}

-----------------------------------------------------------------------------
(* Properties of the notification adapters (SpecExpiry, Spec)              *)

\* The step is one of the reconciler: startup, the receive of an event with its
\* handling, or the rest of a handler.
ReconcilerStep ==
    \/ pc = "start" /\ pc' # "start"
    \/ pc = "running" /\ queue # <<>> /\ queue' = Tail(queue)
    \/ pc \in {"dropping", "expanding"} /\ queue' = queue /\ UNCHANGED <<returned, hook, inflight>>

\* C27: a producer (a device, session-created or session notification adapter, or
\* the focus tracker) changes neither the registry map, the defaults, the
\* subscriptions nor anything else of the reconciler: its step appends events to
\* the channel, or rejects a bad value, and returns.  Every change of the registry
\* after startup is made by a step of the reconciler.
C27_ProducersOnlySend ==
    [][/\ ~ReconcilerStep
             => /\ UNCHANGED <<pc, map, defaults, last, result, focusVars, histVars, subVars,
                               capacity>>
                /\ Len(queue') >= Len(queue)
                /\ SubSeq(queue', 1, Len(queue)) = queue
       /\ (map' # map \/ defaults' # defaults) => ReconcilerStep]_vars

\* While the reconciler is inside the focus correlation, with the Active device d1
\* in the registry, an adapter has sent DeviceRemoved(d1) and returned: d1 is still
\* there.
C27_Witness ==
    /\ pc = "expanding"
    /\ queue = <<DeviceRemoved("d1")>>
    /\ returned = "Ok"
    /\ "d1" \in DOMAIN map
    /\ map["d1"].state = "Active"

\* The events SessionDisconnected(SessionExpired) and StateChanged(Expired) of a session.
ExpiryDisconnect(d, s) == SessionEvent(d, s, "SessionDisconnected", "SessionExpired")

ExpiryChange(d, s) == SessionEvent(d, s, "StateChanged", "Expired")

\* How many times the event occurs in the channel from position k on.
CountFrom(q, k, event) == Cardinality({i \in k..Len(q) : q[i] = event})

\* C23: for a state change to Expired the adapter appends SessionDisconnected with
\* reason SessionExpired and later StateChanged(Expired) for the same device and
\* session: the state change is appended only by a callback that has appended its
\* disconnect, whatever other producers append in between, so that in the channel
\* every such disconnect is followed by its state change unless that one is still to
\* be sent.  For Active and Inactive the adapter appends the StateChanged event alone.
C23_ExpiryDisconnectsThenForwards ==
    [][/\ \A d \in DeviceIds, s \in SessionIds, k \in 1..Len(queue') :
             CountFrom(queue', k, ExpiryDisconnect(d, s))
                <= CountFrom(queue', k, ExpiryChange(d, s))
                      + IF ExpiryChange(d, s) \in inflight' THEN 1 ELSE 0
       /\ Len(queue') > Len(queue) =>
             LET event == queue'[Len(queue')]
                 change == ExpiryChange(event.device_id, event.session_instance_id)
             IN  /\ queue' = Append(queue, event)
                 /\ event = ExpiryDisconnect(event.device_id, event.session_instance_id)
                       => change \notin inflight /\ inflight' = inflight \cup {change}
                 /\ event = change
                       => change \in inflight /\ inflight' = inflight \ {change}
                 /\ event.kind = "StateChanged" /\ event # change
                       => inflight' = inflight /\ returned' = "Ok"]_vars

\* The expiry of s1: its disconnect, a volume change sent by another callback in
\* between, and then its state change, the callback having returned.
C23_Witness ==
    /\ pc = "running"
    /\ queue = <<ExpiryDisconnect("d1", "s1"),
                 SessionEvent("d1", "s1", "SimpleVolumeChanged", "-"),
                 ExpiryChange("d1", "s1")>>
    /\ inflight = {}
    /\ returned = "Ok"

\* The handler ending with this step made this call, successfully.
Called(name) == \E i \in 1..Len(calls') : calls'[i].call = name /\ calls'[i].ok

\* C25: a session-created subscription is registered only while its device is in the
\* registry and Active.  The handler that takes an Active device to another state,
\* and the one that drops a removed Active device, unregister the device's
\* session-created subscription; and no handler registers a further one for a
\* device that is in the registry and Active unless it unregisters the earlier one.
C25_DeviceSubscriptionFollowsActive ==
    [][/\ \A st \in DEVICE_STATE \ {"DEVICE_STATE_ACTIVE"} :
             (ReceivesStateOfActive(st) /\ result' = "Ok")
                => Called("UnregisterSessionNotification")
       /\ (pc = "dropping" /\ removed # None /\ removed[1].state = "Active")
             => Called("UnregisterSessionNotification")
       /\ (ReceivesStateOfActive("DEVICE_STATE_ACTIVE")
                /\ Called("RegisterSessionNotification"))
             => Called("UnregisterSessionNotification")]_vars

\* C26: the reconciler makes no platform call that activates a device, subscribes
\* or enumerates sessions while it holds the registry guard: every such call of
\* every handler is made with the guard released.
C26_NoPlatformCallUnderLock ==
    \A i \in 1..Len(calls) : ~calls[i].locked

\* C29: a SessionCreated event whose device is not in the registry or is not
\* Active, or whose session is not in the fresh enumeration of the device's
\* sessions, is dropped: the handler returns Ok, the loop goes on, the registry and
\* the subscriptions are as before, and the enumeration is asked for once at most
\* (the step is the one that takes the event from the channel; by C27 no other
\* step of the reconciler and no producer touches the registry for it).
C29_SessionCreatedDropped ==
    [][(Receives("Device", "SessionCreated") /\ queue' = Tail(queue)) =>
         LET d == Head(queue).device_id
             s == Head(queue).session_instance_id
         IN  (\/ d \notin DOMAIN map
              \/ map[d].state # "Active"
              \/ enumerated' # None /\ s \notin enumerated'[1])
                => /\ result' = "Ok"
                   /\ pc' = "running"
                   /\ UNCHANGED <<map, defaults, subscribed>>
                   /\ Len(calls') <= 1]_vars

\* SessionCreated(d1, s2) was handled for the Active device d1 whose enumeration
\* held s1 only: dropped, d1 has no s2.
C29_Witness ==
    /\ pc = "running"
    /\ last = SessionCreated("d1", "s2")
    /\ result = "Ok"
    /\ enumerated = Some({"s1"})
    /\ calls = <<Call("GetSessionEnumerator", TRUE, TRUE)>>
    /\ map["d1"].state = "Active"
    /\ "s2" \notin DOMAIN map["d1"].session_map

-----------------------------------------------------------------------------
(* Properties of failing session creations (SpecLeaks)                     *)

\* C24: whenever the reconciler is at the channel receive, a session-level
\* subscription is registered only for sessions that are entries of some device's
\* session map, and one for each: whatever removed an entry also unregistered it.
C24_NoSubscriptionWithoutEntry ==
    pc = "running" =>
        \A ds \in DeviceIds \X SessionIds :
            subscribed[ds] = IF ds \in SessionsOf(map) THEN 1 ELSE 0


\* C28: a failing creation of a session entry leaves the registry as it was.  When
\* the DeviceAdded, DeviceStateChanged or SessionCreated handler fails, the map is
\* the one before the event (no entry added, no device left Active with part of its
\* sessions) and no session-level subscription was added; and a device skipped at
\* startup leaves no session-level subscription behind.
C28_FailedCreationChangesNothing ==
    [][/\ (/\ pc = "running"
           /\ queue # <<>>
           /\ Head(queue).kind \in {"DeviceAdded", "DeviceStateChanged", "SessionCreated"}
           /\ result' \in {"Err", "Panic"})
             => map' = map /\ subscribed' = subscribed
       /\ (pc = "start" /\ pc' = "running")
             => \A ds \in DeviceIds \X SessionIds :
                   subscribed'[ds] > 0 => ds \in SessionsOf(map')]_vars

-----------------------------------------------------------------------------
(* Properties of followed sessions (FairSessions)                          *)

\* The session is live on d1, which is Active in the registry.
LiveOnActive(s) ==
    /\ <<"d1", s>> \in audio.live
    /\ "d1" \in DOMAIN map
    /\ map["d1"].state = "Active"

\* The session is an entry of d1's session map.
Entered(s) == "d1" \in DOMAIN map /\ s \in DOMAIN map["d1"].session_map

\* A SessionCreated event for the session is on its way: owed by the platform or
\* waiting in the channel.
OnItsWay(s) ==
    \/ <<"d1", s>> \in audio.announce
    \/ \E i \in 1..Len(queue) : queue[i] = SessionCreated("d1", s)

-----------------------------------------------------------------------------
(* Properties of the matrix indexes (SpecDefaults)                         *)

\* The column `flow as usize` is one the rows of the matrix have.
IsColumn(flow) == \A role \in ERole : FlowIndex(flow) + 1 \in DOMAIN defaults[RoleIndex(role) + 1]

\* C31: Flow All is never an index of the default matrix.  Every write the
\* DefaultDeviceChanged arm makes, also for an event that carries All, goes to the
\* Render or the Capture column, and the lookups of print_devices, the only caller
\* of get_default_device, never fail its assertion.
C31_AllIsNeverAnIndex ==
    /\ [][(Receives("Device", "DefaultDeviceChanged") /\ queue' = Tail(queue)) =>
            LET flows == default_flows(Head(queue).a)
            IN  \A i \in 1..Len(flows) :
                   flows[i] \in {"Render", "Capture"} /\ IsColumn(flows[i])]_vars
    /\ [](\A role \in ERole, flow \in {"Render", "Capture"} :
             print_devices(defaults, map)[role, flow] # Panicked)

\* DefaultDeviceChanged(All, Console) for d1, which is in the map, was handled: both
\* Console cells name d1 and the lookups return its entry.
C31_Witness ==
    /\ pc = "running"
    /\ last = DefaultDeviceChanged("d1", "All", "Console")
    /\ "d1" \in DOMAIN map
    /\ defaults[1] = <<Some("d1"), Some("d1")>>
    /\ print_devices(defaults, map)["Console", "Capture"] = Some(map["d1"])

-----------------------------------------------------------------------------
(* Properties of the session events that only report (Spec)                *)

\* The event reports a volume or mute change, an icon path, a grouping parameter or
\* a state change to Active or Inactive.
OnlyReports(event) ==
    /\ event.type = "Session"
    /\ \/ event.kind \in {"SimpleVolumeChanged", "IconPathChanged", "GroupingParamChanged"}
       \/ event.kind = "StateChanged" /\ event.a \in {"Active", "Inactive"}

\* C32: handling a volume/mute, icon path, grouping parameter or state
\* (Active, Inactive) event of a session that is in the registry leaves the set of
\* devices, the key set of every session map, every device state and the default
\* matrix as they were, and returns Ok.
C32_ReportsChangeNothing ==
    [][(/\ pc = "running" /\ queue # <<>> /\ queue' = Tail(queue)
        /\ OnlyReports(Head(queue))
        /\ <<Head(queue).device_id, Head(queue).session_instance_id>> \in SessionsOf(map)) =>
          /\ result' = "Ok"
          /\ DOMAIN map' = DOMAIN map
          /\ \A d \in DOMAIN map :
                /\ map'[d].state = map[d].state
                /\ DOMAIN map'[d].session_map = DOMAIN map[d].session_map
          /\ defaults' = defaults]_vars

\* StateChanged(Inactive) for s1 was handled while s1 was an entry of d1: it still
\* is (no handler ran since) and d1 is Active.
C32_Witness ==
    /\ pc = "running"
    /\ last = SessionEvent("d1", "s1", "StateChanged", "Inactive")
    /\ result = "Ok"
    /\ "d1" \in DOMAIN map
    /\ "s1" \in DOMAIN map["d1"].session_map
    /\ map["d1"].state = "Active"

-----------------------------------------------------------------------------
(* Properties of the registry lock (Spec)                                  *)

\* The step is one of main: startup, the receive of an event with its handling, the
\* rest of the DeviceRemoved arm, or a round of pid_and_child_pids.
MainStep ==
    \/ pc = "start" /\ pc' # "start"
    \/ pc = "running" /\ queue # <<>> /\ queue' = Tail(queue)
    \/ pc = "dropping" /\ pc' # "dropping"
    \/ pc = "expanding" /\ (pc' # "expanding" \/ children' # children)

\* The lock after these operations of its one user, from "free" or "held": locking
\* a held lock blocks for ever, and only a held guard can be dropped.
RECURSIVE GuardAfter(_, _)
GuardAfter(lock, ops) ==
    IF ops = <<>> \/ lock = "deadlock"
    THEN lock
    ELSE GuardAfter(CASE Head(ops) = "lock" /\ lock = "free" -> "held"
                      [] Head(ops) = "drop" /\ lock = "held" -> "free"
                      [] OTHER -> "deadlock",
                    Tail(ops))

\* main holds a guard between its steps only inside find_sessions_for_pid.
GuardAt(at) == IF at = "expanding" THEN "held" ELSE "free"

\* C33: main never locks the registry while it holds a guard.  In every step of
\* main (startup, each handler, each part of the focus arm) the lock operations,
\* taken in order from the lock as the step before left it, take the lock only
\* when it is free and leave it as the next step expects it.
C33_NoLockWhileHeld ==
    [][MainStep => GuardAfter(GuardAt(pc), guards') = GuardAt(pc')]_vars

\* The focus arm found the session of d1 that the foreground process owns:
\* find_sessions_for_pid released its guard and the loop locked once for it.
C33_Witness ==
    /\ pc = "running"
    /\ last.type = "ActiveWindowChange"
    /\ found = {<<"d1", "s1">>}
    /\ guards = <<"drop", "lock", "drop">>

\* C34: no partially activated device can be seen under the lock.  When the handler
\* of DeviceAdded or of DeviceStateChanged(Active) is done and the lock can be
\* taken again (main has neither returned nor panicked, which drops the registry),
\* the device, if it is Active in the registry, has an entry for every session the
\* enumeration of this activation returned.
C34_NoPartialActivationSeen ==
    [][\A d \in DeviceIds :
         (/\ Handles(DeviceAdded(d)) \/ Handles(DeviceStateChanged(d, "DEVICE_STATE_ACTIVE"))
          /\ pc' # "stopped"
          /\ d \in DOMAIN map'
          /\ map'[d].state = "Active")
            => /\ enumerated' # None
               /\ enumerated'[1] \subseteq DOMAIN map'[d].session_map
               /\ GuardAfter("free", guards') = "free"]_vars

\* DeviceAdded for d2 was handled: d2 is Active with both sessions its enumeration
\* returned, beside d1.
C34_Witness ==
    /\ pc = "running"
    /\ last = DeviceAdded("d2")
    /\ result = "Ok"
    /\ enumerated = Some({"s1", "s2"})
    /\ DOMAIN map = {"d1", "d2"}
    /\ map["d2"].state = "Active"
    /\ DOMAIN map["d2"].session_map = {"s1", "s2"}

-----------------------------------------------------------------------------
(* Properties of sessions created twice (SpecLeaks, SpecRegistry)          *)

\* C35: when a session that is already an entry of its device (from the
\* enumeration of an activation or from an earlier SessionCreated) is created again
\* by a SessionCreated event, the device ends with one entry for the session
\* instance id, the replaced entry having been dropped, and with exactly one
\* session-level subscription registered for it.
C35_CreatedTwiceSubscribedOnce ==
    [][\A d \in DeviceIds, s \in SessionIds :
         (/\ Handles(SessionCreated(d, s))
          /\ <<d, s>> \in SessionsOf(map)
          /\ result' = "Ok"
          /\ enumerated' # None
          /\ s \in enumerated'[1])
            => /\ <<d, s>> \in SessionsOf(map')
               /\ released' = {<<d, s>>}
               /\ subscribed'[<<d, s>>] = 1]_vars

-----------------------------------------------------------------------------
(* Properties of the device notifications raised during startup (FairStartup) *)

\* main waits at the receive with nothing queued, and the registry holds the
\* devices the platform has.
DrainedAndMatching ==
    /\ pc = "running"
    /\ queue = <<>>
    /\ DOMAIN map = audio.present

\* C36: no device notification raised during startup is lost.  From the moment the
\* endpoint client is registered, which is before the devices are enumerated, main
\* comes to wait with an empty queue and a registry that holds the platform's
\* devices; and whenever it waits with an empty queue the registry holds them.
C36_StartupNotificationsApplied ==
    /\ []((pc = "running" /\ queue = <<>>) => DOMAIN map = audio.present)
    /\ audio.client ~> DrainedAndMatching

-----------------------------------------------------------------------------
(* Properties of the trigger keys (SpecTriggers)                           *)

\* The control satisfies is_triggered_by for the message the loop received.
TriggeredBy(i) ==
    /\ bytes # None
    /\ parse(bytes[1]) # None
    /\ is_triggered_by(controls[i], parse(bytes[1])[1])

\* The trigger compares with a threshold.
IsThreshold(trigger) ==
    HasValue(trigger.kind) /\ trigger.match_type # "Exact"

\* C37: for a trigger and a message that satisfies its is_triggered_by, the
\* loop looks the message up under the key the trigger is registered with: the
\* bytes of the message are the exact key of an Exact trigger (and of the trigger
\* of a message without a value), the message without its value is the threshold
\* key of a threshold trigger; and every trigger has exactly one of the two keys.
C37_LookedUpUnderItsKey ==
    \A i \in DOMAIN controls :
        /\ (exact_hash_key(controls[i]) = None) # (threshold_hash_key(controls[i]) = None)
        /\ TriggeredBy(i) =>
              IF IsThreshold(controls[i])
              THEN threshold_hash_key(controls[i]) = live_event_without_value(bytes[1])
              ELSE exact_hash_key(controls[i]) = bytes
        /\ (TriggeredBy(i) /\ midi_pc = "listening") => invoked = <<i>>

\* A threshold trigger was triggered by a message whose value is not its threshold
\* and not the default, and was found under its key.
C37_Witness ==
    \E i \in DOMAIN controls :
        /\ TriggeredBy(i)
        /\ IsThreshold(controls[i])
        /\ controls[i].kind = "PitchBend"
        /\ PitchBend_as_int(parse(bytes[1])[1].value) \notin {controls[i].value, 0}
        /\ invoked = <<i>>

-----------------------------------------------------------------------------
(* Properties of the dispatch to several controls (SpecMidi)               *)

\* C38: whatever controls are registered, every control whose trigger condition
\* matches the message the loop received had its handle_midi_event called for it,
\* also when several controls have the same exact key or the same threshold key.
C38_EveryMatchingControlInvoked ==
    \A i \in DOMAIN controls :
        TriggeredBy(i) => \E j \in DOMAIN invoked : invoked[j] = i

=============================================================================
